---- MODULE Spec2Model ----
(***************************************************************************)
(* Model of the containers manager (src/server/containers-manager.cpp):    *)
(* foreground selection, startAll/stopAll, the display-off and notification *)
(* handlers, the active-container calls, detach on exit and the destructor, *)
(* the proxy-call router and the cross-container file move.                *)
(***************************************************************************)
EXTENDS Integers, Sequences, FiniteSets, TLC

VARIABLES
    mContainers,    \* key set of ContainersManager::mContainers
    defaultId,      \* mConfig.defaultId
    foregroundId,   \* mConfig.foregroundId
    state,          \* per container: lifecycle state
    foreground,     \* per container: foreground flag
    pc,             \* position of the manager operation in progress
    req,            \* the operation being served (or served last) and its inputs
    calls,          \* container / host-connection calls made by that operation
    reply,          \* what was set on that operation's result builder, in order
    failed,         \* some container operation has thrown so far
    pending,        \* forwarded proxy calls whose downstream result has not arrived
    thrown,         \* an exception left the operation in req
    mDetachOnExit,  \* ContainersManager::mDetachOnExit
    detached,       \* per container: setDetachOnExit() was called on it
    prev            \* what req directly followed, when req is the second operation of a
                    \* pair: a repeated focus, GetActiveContainerId after
                    \* SetActiveContainer, stopAll after startAll

VARIABLES
    exitCode,       \* exit code of the daemon process, NotExited while it runs
    pc2,            \* position of a second thread inside the manager
    thrown2         \* an exception left the second thread's operation

VARIABLES
    hostSignals,    \* signals emitted on the host bus, in order
    dbusAddress,    \* per container: the bus address it reported last
    reported,       \* the bus-address changes the containers reported, in order
    dbusPending,    \* per container: the address of the change whose callback is running
    nameOwner,      \* per container bus: the client that owns the power-manager bus
                    \* name, "" if none
    emitted,        \* DisplayOff signals emitted on the container buses, in order
    displayOffCalled \* containers whose display-off callback was invoked, in order

VARIABLES
    gLastMessageID, \* ipc: std::atomic<MessageID> gLastMessageID
    gLastPeerID,    \* ipc: std::atomic<PeerID> gLastPeerID
    messageIds,     \* ipc: the values getNextMessageID() returned, with the calling thread
    peerIds,        \* ipc: the values getNextPeerID() returned, with the calling thread
    serviceStarted, \* ipc: the service's worker threads are running
    peers,          \* ipc: the connected peers (their file descriptors)
    ipcCalls,       \* ipc: the calls made through the service and what each was given back
    returnCallbacks, \* ipc: the Processor's table of calls awaiting a response
    inFlight,       \* ipc: requests sent whose response has not reached the Processor
    discarded       \* ipc: responses the Processor dropped

processVars == <<exitCode, pc2, thrown2>>

busVars == <<hostSignals, dbusAddress, reported, dbusPending, nameOwner, emitted,
            displayOffCalled>>

VARIABLES
    subscribed,     \* ipc: per peer, the signal ids it subscribed to
    signalled,      \* ipc: the signal frames sent to peers, in order
    lastSignal,     \* ipc: the arguments of signal() calls, in order
    nextSubscriptionId, \* client: the subscription id handed out last
    stateCallbacks, \* client: the subscriptions held, by id
    issuedIds,      \* client: the ids vsm_add_state_callback returned, in order
    methodCalls,    \* NotifyActiveContainer calls made on the container buses, in order
    zoneSignals     \* Notification signals emitted on the container buses, in order

ipcVars == <<gLastMessageID, gLastPeerID, messageIds, peerIds, serviceStarted, peers,
            ipcCalls, returnCallbacks, inFlight, discarded>>

signalVars == <<subscribed, signalled, lastSignal>>

clientVars == <<nextSubscriptionId, stateCallbacks, issuedIds>>

notifyVars == <<methodCalls, zoneSignals>>

extVars == <<signalVars, clientVars, notifyVars>>

vars == <<mContainers, defaultId, foregroundId, state, foreground,
          pc, req, calls, reply, failed, pending,
          thrown, mDetachOnExit, detached, prev, processVars, busVars, ipcVars, extVars>>

(***************************************************************************)
(* Configuration                                                           *)
(***************************************************************************)
HOST_ID == "host"

\* container ids in std::map (lexicographic key) order
ZoneOrder == <<"z1", "z2", "z3">>

ZoneIds == {ZoneOrder[i] : i \in 1..Len(ZoneOrder)}

\* an id that names no container
GHOST == "ghost"

Privilege == ("z1" :> 5) @@ ("z2" :> 1) @@ ("z3" :> 1)

SwitchToDefaultAfterTimeout == ("z1" :> TRUE) @@ ("z2" :> FALSE) @@ ("z3" :> TRUE)

\* the container map iterated in key order
MapSeq(keys) == SelectSeq(ZoneOrder, LAMBDA z : z \in keys)

(***************************************************************************)
(* Container (lifecycle object owned by the manager)                       *)
(***************************************************************************)
ZoneStates == {"STOPPED", "STARTING", "RUNNING", "STOPPING", "LOCKED", "FROZEN", "ABORTING"}

\* an isRunning() that is false for a locked container
IsRunning_OnlyRunning(st) == st = "RUNNING"

IsRunning(st) == st \in {"RUNNING", "LOCKED"}

IsStopped(st) == st = "STOPPED"

\* start(): STOPPED -> STARTING -> RUNNING; re-entry after success is a no-op
StartedState(st) == IF st = "STOPPED" THEN "RUNNING" ELSE st

\* stop(): RUNNING -> STOPPING -> STOPPED
StoppedState(st) == "STOPPED"

\* a call on a container (or on the host connection) and whether it returned normally
Call(op, z, arg, ok) == [op |-> op, zone |-> z, arg |-> arg, ok |-> ok]

Idle == [name |-> "idle", target |-> "", rest |-> <<>>, found |-> FALSE, via |-> ""]

Req(op, a, b, c) == [op |-> op, a |-> a, b |-> b, c |-> c]

ErrorReply(code, why) == [kind |-> "error", val |-> code, why |-> why]

ValueReply(v) == [kind |-> "value", val |-> v, why |-> ""]

VoidReply == [kind |-> "void", val |-> "", why |-> ""]

ERROR_UNKNOWN_ID == "org.tizen.containers.error.UnknownId"

ERROR_FORBIDDEN == "org.tizen.containers.error.Forbidden"

ERROR_FORWARDED == "org.tizen.containers.error.Forwarded"

ERROR_CONTAINER_STOPPED == "org.tizen.containers.host.error.ContainerStopped"

(***************************************************************************)
(* Initial state: the manager as constructed, every container stopped      *)
(***************************************************************************)
\* the process has not exited
NotExited == -1

InitProcess ==
    /\ exitCode = NotExited
    /\ pc2 = Idle
    /\ thrown2 = FALSE

InitBus ==
    /\ hostSignals = <<>>
    /\ dbusAddress = [z \in ZoneIds |-> ""]
    /\ reported = <<>>
    /\ dbusPending = [z \in ZoneIds |-> <<>>]
    /\ nameOwner = [z \in ZoneIds |-> ""]
    /\ emitted = <<>>
    /\ displayOffCalled = <<>>

InitIpc ==
    /\ gLastMessageID = 0
    /\ gLastPeerID = 0
    /\ messageIds = <<>>
    /\ peerIds = <<>>
    /\ serviceStarted = FALSE
    /\ peers = {}
    /\ ipcCalls = <<>>
    /\ returnCallbacks = {}
    /\ inFlight = {}
    /\ discarded = <<>>

\* peers of the service (file descriptors)
PeerFDs == {"p1", "p2"}

InitExt ==
    /\ subscribed = [p \in PeerFDs |-> {}]
    /\ signalled = <<>>
    /\ lastSignal = <<>>
    /\ nextSubscriptionId = 0
    /\ stateCallbacks = {}
    /\ issuedIds = <<>>
    /\ methodCalls = <<>>
    /\ zoneSignals = <<>>

Init ==
    /\ mContainers = ZoneIds
    /\ defaultId \in ZoneIds
    /\ foregroundId \in {"", GHOST} \cup ZoneIds
    /\ state = [z \in ZoneIds |-> "STOPPED"]
    /\ foreground = [z \in ZoneIds |-> FALSE]
    /\ pc = Idle
    /\ req = Req("none", "", "", "")
    /\ calls = <<>>
    /\ reply = <<>>
    /\ failed = FALSE
    /\ pending = <<>>
    /\ thrown = FALSE
    /\ mDetachOnExit = FALSE
    /\ detached = [z \in ZoneIds |-> FALSE]
    /\ prev = <<>>
    /\ InitProcess
    /\ InitBus
    /\ InitIpc
    /\ InitExt

(***************************************************************************)
(* ContainersManager::focus                                                *)
(***************************************************************************)
\* a focus that backgrounds no container
FocusBackgroundTargets_None(keys) == <<>>

\* the containers the loop of focus sends to background: the whole map, in key order
FocusBackgroundTargets(keys) == MapSeq(keys)

\* the operation served last entered focus(id) and focus returned
FocusReturned(id) ==
    /\ req.op \in {"SetActiveContainer", "DisplayOff"}
    /\ id = (IF req.op = "SetActiveContainer" THEN req.a ELSE defaultId)
    /\ pc = Idle
    /\ calls # <<>>
    /\ ~thrown

\* what a caller can observe of the foreground selection
Observable == [foreground |-> foreground, foregroundId |-> foregroundId]

\* a focus that spares its target from goBackground
FocusEnter_SkipTarget(id, via) ==
    IF id \in mContainers
    THEN /\ pc' = [name |-> "focus", target |-> id,
                   rest |-> SelectSeq(FocusBackgroundTargets(mContainers), LAMBDA z : z # id),
                   found |-> FALSE, via |-> via]
         /\ thrown' = FALSE
         /\ prev' = IF FocusReturned(id) THEN <<Observable>> ELSE <<>>
    ELSE /\ pc' = Idle
         /\ thrown' = TRUE
         /\ prev' = <<>>

\* entry of focus(containerId): mContainers.at(containerId), then the loop
FocusEnter(id, via) ==
    IF id \in mContainers
    THEN /\ pc' = [name |-> "focus", target |-> id, rest |-> FocusBackgroundTargets(mContainers),
                   found |-> FALSE, via |-> via]
         /\ thrown' = FALSE
         /\ prev' = IF FocusReturned(id) THEN <<Observable>> ELSE <<>>
    ELSE /\ pc' = Idle  \* std::out_of_range leaves the handler
         /\ thrown' = TRUE
         /\ prev' = <<>>

\* one iteration of the loop: container.second->goBackground()
FocusBackground ==
    /\ pc.name = "focus"
    /\ pc.rest # <<>>
    /\ LET z == Head(pc.rest) IN
       \/ /\ calls' = Append(calls, Call("goBackground", z, <<>>, TRUE))
          /\ foreground' = [foreground EXCEPT ![z] = FALSE]
          /\ pc' = [pc EXCEPT !.rest = Tail(pc.rest)]
          /\ UNCHANGED <<failed, thrown>>
       \/ /\ calls' = Append(calls, Call("goBackground", z, <<>>, FALSE))
          /\ failed' = TRUE             \* goBackground() throws
          /\ thrown' = TRUE
          /\ pc' = Idle
          /\ UNCHANGED foreground
    /\ UNCHANGED <<processVars, busVars, ipcVars, extVars>>
    /\ UNCHANGED <<mContainers, defaultId, foregroundId, state, req, reply, pending,
                   mDetachOnExit, detached, prev>>

\* a focus that leaves out goForeground() when its target is the recorded one already
FocusForeground_SkipRecorded ==
    /\ pc.name = "focus"
    /\ pc.rest = <<>>
    /\ foregroundId' = pc.target
    /\ pc' = Idle
    /\ \/ /\ pc.target = foregroundId
          /\ reply' = IF pc.via = "SetActiveContainer" THEN Append(reply, VoidReply) ELSE reply
          /\ UNCHANGED <<calls, foreground, failed, thrown>>
       \/ /\ pc.target # foregroundId
          /\ calls' = Append(calls, Call("goForeground", pc.target, <<>>, TRUE))
          /\ foreground' = [foreground EXCEPT ![pc.target] = TRUE]
          /\ reply' = IF pc.via = "SetActiveContainer" THEN Append(reply, VoidReply) ELSE reply
          /\ UNCHANGED <<failed, thrown>>
       \/ /\ pc.target # foregroundId
          /\ calls' = Append(calls, Call("goForeground", pc.target, <<>>, FALSE))
          /\ failed' = TRUE
          /\ thrown' = TRUE
          /\ UNCHANGED <<foreground, reply>>
    /\ UNCHANGED <<processVars, busVars, ipcVars, extVars>>
    /\ UNCHANGED <<mContainers, defaultId, state, req, pending, mDetachOnExit, detached, prev>>

\* after the loop: mConfig.foregroundId = id; foregroundContainer->goForeground()
FocusForeground ==
    /\ pc.name = "focus"
    /\ pc.rest = <<>>
    /\ foregroundId' = pc.target
    /\ pc' = Idle
    /\ \/ /\ calls' = Append(calls, Call("goForeground", pc.target, <<>>, TRUE))
          /\ foreground' = [foreground EXCEPT ![pc.target] = TRUE]
          /\ reply' = IF pc.via = "SetActiveContainer" THEN Append(reply, VoidReply) ELSE reply
          /\ UNCHANGED <<failed, thrown>>
       \/ /\ calls' = Append(calls, Call("goForeground", pc.target, <<>>, FALSE))
          /\ failed' = TRUE             \* goForeground() throws
          /\ thrown' = TRUE
          /\ UNCHANGED <<foreground, reply>>
    /\ UNCHANGED <<processVars, busVars, ipcVars, extVars>>
    /\ UNCHANGED <<mContainers, defaultId, state, req, pending, mDetachOnExit, detached, prev>>

(***************************************************************************)
(* ContainersManager::handleSetActiveContainerCall                         *)
(***************************************************************************)
\* a handler without the find() check, leaving unknown ids to focus
HandleSetActiveContainerCall_NoFind(id) ==
    /\ pc = Idle
    /\ req' = Req("SetActiveContainer", id, "", "")
    /\ calls' = <<>>
    /\ IF id \in mContainers /\ IsStopped(state[id])
       THEN /\ reply' = <<ErrorReply(ERROR_CONTAINER_STOPPED,
                                     "Could not activate a stopped container")>>
            /\ pc' = Idle
            /\ thrown' = FALSE
            /\ prev' = <<>>
       ELSE /\ reply' = <<>>
            /\ FocusEnter(id, "SetActiveContainer")
    /\ UNCHANGED <<processVars, busVars, ipcVars, extVars>>
    /\ UNCHANGED <<mContainers, defaultId, foregroundId, state, foreground, failed, pending,
                   mDetachOnExit, detached>>

HandleSetActiveContainerCall(id) ==
    /\ pc = Idle
    /\ req' = Req("SetActiveContainer", id, "", "")
    /\ calls' = <<>>
    /\ IF id \notin mContainers
       THEN /\ reply' = <<ErrorReply(ERROR_UNKNOWN_ID, "No such container id")>>
            /\ pc' = Idle
            /\ thrown' = FALSE
            /\ prev' = <<>>
       ELSE IF IsStopped(state[id])
       THEN /\ reply' = <<ErrorReply(ERROR_CONTAINER_STOPPED,
                                     "Could not activate a stopped container")>>
            /\ pc' = Idle
            /\ thrown' = FALSE
            /\ prev' = <<>>
       ELSE /\ reply' = <<>>
            /\ FocusEnter(id, "SetActiveContainer")
    /\ UNCHANGED <<processVars, busVars, ipcVars, extVars>>
    /\ UNCHANGED <<mContainers, defaultId, foregroundId, state, foreground, failed, pending,
                   mDetachOnExit, detached>>

(***************************************************************************)
(* ContainersManager::handleGetActiveContainerIdCall                       *)
(***************************************************************************)
\* a handler that looks at the default container
GetActiveContainerIdAnswer_Default ==
    IF IsRunning(state[defaultId]) THEN defaultId ELSE ""

\* isRunning() of the container under mConfig.foregroundId decides the answer
GetActiveContainerIdAnswer ==
    IF IsRunning(state[foregroundId]) THEN foregroundId ELSE ""

\* the position of a process whose behaviour is undefined from here on
Undefined == [Idle EXCEPT !.name = "undefined"]

\* mContainers[mConfig.foregroundId]: for a key that is absent, operator[] inserts
\* an entry holding a null pointer and isRunning() is called through it. That is
\* undefined behaviour: the process crashes without a reply, or answers either way.
HandleGetActiveContainerIdCall ==
    /\ pc = Idle
    /\ req' = Req("GetActiveContainerId", "", "", "")
    /\ calls' = <<>>
    /\ thrown' = FALSE
    /\ prev' = IF req.op = "SetActiveContainer" /\ reply = <<VoidReply>>
               THEN <<req.a>>
               ELSE <<>>
    /\ IF foregroundId \in mContainers
       THEN /\ reply' = <<ValueReply(<<GetActiveContainerIdAnswer>>)>>
            /\ UNCHANGED <<mContainers, state, foreground, detached, pc>>
       ELSE /\ mContainers' = mContainers \cup {foregroundId}
            /\ state' = [z \in mContainers' |->
                            IF z \in mContainers THEN state[z] ELSE "NULL"]
            /\ foreground' = [z \in mContainers' |->
                                 IF z \in mContainers THEN foreground[z] ELSE FALSE]
            /\ detached' = [z \in mContainers' |->
                               IF z \in mContainers THEN detached[z] ELSE FALSE]
            /\ pc' = Undefined
            /\ reply' \in {<<>>, <<ValueReply(<<"">>)>>, <<ValueReply(<<foregroundId>>)>>}
    /\ UNCHANGED <<defaultId, foregroundId, failed, pending, mDetachOnExit>>
    /\ UNCHANGED <<processVars, busVars, ipcVars, extVars>>

(***************************************************************************)
(* ContainersManager::getRunningForegroundContainerId / displayOffHandler  *)
(***************************************************************************)
GetRunningForegroundContainerId ==
    IF foregroundId \in mContainers /\ IsRunning(state[foregroundId])
    THEN foregroundId
    ELSE ""

\* a handler that switches whatever the active container's configuration says
DisplayOffSwitches_IgnoreFlag(activeContainerName) ==
    activeContainerName \in mContainers

\* activeContainer != mContainers.end() && isSwitchToDefaultAfterTimeoutAllowed()
DisplayOffSwitches(activeContainerName) ==
    /\ activeContainerName \in mContainers
    /\ SwitchToDefaultAfterTimeout[activeContainerName]

DisplayOffHandler(caller) ==
    /\ pc = Idle
    /\ req' = Req("DisplayOff", caller, "", "")
    /\ calls' = <<>>
    /\ reply' = <<>>
    /\ IF DisplayOffSwitches(GetRunningForegroundContainerId)
       THEN FocusEnter(defaultId, "DisplayOff")
       ELSE /\ pc' = Idle
            /\ thrown' = FALSE
            /\ prev' = <<>>
    /\ UNCHANGED <<processVars, busVars, ipcVars, extVars>>
    /\ UNCHANGED <<mContainers, defaultId, foregroundId, state, foreground, failed, pending,
                   mDetachOnExit, detached>>

(***************************************************************************)
(* ContainersManager::notifyActiveContainerHandler                         *)
(***************************************************************************)
Applications == {"app"}

Messages == {"msg"}

\* a handler that does not compare the caller with the active container
NotifyActiveTarget_NoCallerCheck(caller) == GetRunningForegroundContainerId

\* the container that is sent the notification, "" when none is
NotifyActiveTarget(caller) ==
    LET activeContainer == GetRunningForegroundContainerId IN
    IF activeContainer # "" /\ caller # activeContainer
    THEN activeContainer
    ELSE ""

\* arguments that reach sendNotification in another order
NotificationArgs_Swapped(caller, application, message) == <<caller, message, application>>

\* the arguments of sendNotification(caller, application, message)
NotificationArgs(caller, application, message) == <<caller, application, message>>

\* a handler without the catch: the exception of sendNotification leaves it
NotifyActiveThrown_NoCatch(target, notified) == target # "" /\ ~notified

\* whether an exception leaves the handler: catch(const SecurityContainersException&)
\* keeps the one of sendNotification inside
NotifyActiveThrown(target, notified) == FALSE

\* the handler's effect on the manager; notified: sendNotification returned without
\* throwing
NotifyActiveContainerBody(caller, application, message, notified) ==
    /\ pc = Idle
    /\ req' = Req("NotifyActiveContainer", caller, application, message)
    /\ reply' = <<>>
    /\ LET target == NotifyActiveTarget(caller) IN
       /\ calls' = IF target # ""
                   THEN <<Call("sendNotification", target,
                               NotificationArgs(caller, application, message), notified)>>
                   ELSE <<>>
       /\ thrown' = NotifyActiveThrown(target, notified)
    /\ prev' = <<>>
    /\ UNCHANGED <<mContainers, defaultId, foregroundId, state, foreground, pc, failed,
                   pending, mDetachOnExit, detached>>

NotifyActiveContainerHandler(caller, application, message, notified) ==
    /\ NotifyActiveContainerBody(caller, application, message, notified)
    /\ UNCHANGED <<processVars, busVars, ipcVars, extVars>>

(***************************************************************************)
(* ContainersManager::startAll                                             *)
(***************************************************************************)
StartAll ==
    /\ pc = Idle
    /\ req' = Req("startAll", "", "", "")
    /\ calls' = <<>>
    /\ reply' = <<>>
    /\ pc' = [name |-> "startAll", target |-> "", rest |-> MapSeq(mContainers),
              found |-> FALSE, via |-> ""]
    /\ thrown' = FALSE
    /\ prev' = <<>>
    /\ UNCHANGED <<processVars, busVars, ipcVars, extVars>>
    /\ UNCHANGED <<mContainers, defaultId, foregroundId, state, foreground, failed, pending,
                   mDetachOnExit, detached>>

\* a loop that never sets isForegroundFound
StartAllFound_Never(z, fgId) == FALSE

\* isForegroundFound = true when the key is mConfig.foregroundId
StartAllFound(z, fgId) == z = fgId

\* one iteration: start(), and goForeground() when the key is mConfig.foregroundId
StartAllStep ==
    /\ pc.name = "startAll"
    /\ pc.rest # <<>>
    /\ LET z == Head(pc.rest)
           started == Append(calls, Call("start", z, <<>>, TRUE))
       IN
       \/ /\ z # foregroundId
          /\ calls' = started
          /\ state' = [state EXCEPT ![z] = StartedState(state[z])]
          /\ pc' = [pc EXCEPT !.rest = Tail(pc.rest)]
          /\ UNCHANGED <<foreground, failed, thrown>>
       \/ /\ z = foregroundId
          /\ state' = [state EXCEPT ![z] = StartedState(state[z])]
          /\ \/ /\ calls' = Append(started, Call("goForeground", z, <<>>, TRUE))
                /\ foreground' = [foreground EXCEPT ![z] = TRUE]
                /\ pc' = [pc EXCEPT !.rest = Tail(pc.rest),
                                     !.found = StartAllFound(z, foregroundId)]
                /\ UNCHANGED <<failed, thrown>>
             \/ /\ calls' = Append(started, Call("goForeground", z, <<>>, FALSE))
                /\ failed' = TRUE       \* goForeground() throws
                /\ thrown' = TRUE
                /\ pc' = Idle
                /\ UNCHANGED foreground
       \/ /\ calls' = Append(calls, Call("start", z, <<>>, FALSE))
          /\ failed' = TRUE             \* start() throws
          /\ thrown' = TRUE
          /\ pc' = Idle
          /\ UNCHANGED <<state, foreground>>
    /\ UNCHANGED <<processVars, busVars, ipcVars, extVars>>
    /\ UNCHANGED <<mContainers, defaultId, foregroundId, req, reply, pending, mDetachOnExit,
                   detached, prev>>

\* a selection that keeps the last of the containers of minimal privilege
MinPrivilegeId_Last(keys) ==
    LET s == MapSeq(keys)
        i == CHOOSE i \in 1..Len(s) :
                /\ \A j \in 1..Len(s) : Privilege[s[i]] <= Privilege[s[j]]
                /\ \A j \in (i + 1)..Len(s) : Privilege[s[j]] > Privilege[s[i]]
    IN s[i]

\* std::min_element over the map by privilege: the first minimal element in key order
MinPrivilegeId(keys) ==
    LET s == MapSeq(keys)
        i == CHOOSE i \in 1..Len(s) :
                /\ \A j \in 1..Len(s) : Privilege[s[i]] <= Privilege[s[j]]
                /\ \A j \in 1..(i - 1) : Privilege[s[j]] > Privilege[s[i]]
    IN s[i]

StartAllFinish ==
    /\ pc.name = "startAll"
    /\ pc.rest = <<>>
    /\ pc' = Idle
    /\ IF pc.found
       THEN UNCHANGED <<foregroundId, foreground, calls, failed, thrown>>
       ELSE LET z == MinPrivilegeId(mContainers) IN
            /\ foregroundId' = z
            /\ \/ /\ calls' = Append(calls, Call("goForeground", z, <<>>, TRUE))
                  /\ foreground' = [foreground EXCEPT ![z] = TRUE]
                  /\ UNCHANGED <<failed, thrown>>
               \/ /\ calls' = Append(calls, Call("goForeground", z, <<>>, FALSE))
                  /\ failed' = TRUE     \* goForeground() throws
                  /\ thrown' = TRUE
                  /\ UNCHANGED foreground
    /\ UNCHANGED <<processVars, busVars, ipcVars, extVars>>
    /\ UNCHANGED <<mContainers, defaultId, state, req, reply, pending, mDetachOnExit, detached,
                   prev>>

(***************************************************************************)
(* ContainersManager::stopAll                                              *)
(***************************************************************************)
\* a stopAll that spares the container named by mConfig.foregroundId
StopAllTargets_SkipForeground(keys) == SelectSeq(MapSeq(keys), LAMBDA z : z # foregroundId)

\* the containers the loop of stopAll visits: the whole map, in key order
StopAllTargets(keys) == MapSeq(keys)

StopAll ==
    /\ pc = Idle
    /\ req' = Req("stopAll", "", "", "")
    /\ calls' = <<>>
    /\ reply' = <<>>
    /\ pc' = [name |-> "stopAll", target |-> "", rest |-> StopAllTargets(mContainers),
              found |-> FALSE, via |-> ""]
    /\ thrown' = FALSE
    /\ prev' = IF req.op = "startAll" /\ ~thrown THEN <<"startAll">> ELSE <<>>
    /\ UNCHANGED <<processVars, busVars, ipcVars, extVars>>
    /\ UNCHANGED <<mContainers, defaultId, foregroundId, state, foreground, failed, pending,
                   mDetachOnExit, detached>>

\* the position of ~ContainersManager after its body: the members are destroyed next
Members == [Idle EXCEPT !.name = "members"]

\* where control goes when stopAll is left: back into the destructor that called it
\* (on a throw, into its catch block), otherwise out of the operation
StopAllLeft(via) == IF via = "destructor" THEN Members ELSE Idle

\* an exception of stop() leaves stopAll; only the destructor catches it
StopAllThrown(via) == via # "destructor"

StopAllStep ==
    /\ pc.name = "stopAll"
    /\ IF pc.rest = <<>>
       THEN /\ pc' = StopAllLeft(pc.via)
            /\ UNCHANGED <<state, calls, failed, thrown>>
       ELSE LET z == Head(pc.rest) IN
            \/ /\ calls' = Append(calls, Call("stop", z, <<>>, TRUE))
               /\ state' = [state EXCEPT ![z] = StoppedState(state[z])]
               /\ pc' = [pc EXCEPT !.rest = Tail(pc.rest)]
               /\ UNCHANGED <<failed, thrown>>
            \/ /\ calls' = Append(calls, Call("stop", z, <<>>, FALSE))
               /\ failed' = TRUE        \* stop() throws
               /\ thrown' = StopAllThrown(pc.via)
               /\ pc' = StopAllLeft(pc.via)
               /\ UNCHANGED state
    /\ UNCHANGED <<processVars, busVars, ipcVars, extVars>>
    /\ UNCHANGED <<mContainers, defaultId, foregroundId, foreground, req, reply, pending,
                   mDetachOnExit, detached, prev>>

(***************************************************************************)
(* ContainersManager::setContainersDetachOnExit / ~ContainersManager       *)
(***************************************************************************)
SetContainersDetachOnExit ==
    /\ pc = Idle
    /\ req' = Req("setContainersDetachOnExit", "", "", "")
    /\ mDetachOnExit' = TRUE
    /\ calls' = [i \in 1..Len(MapSeq(mContainers)) |->
                   Call("setDetachOnExit", MapSeq(mContainers)[i], <<>>, TRUE)]
    /\ detached' = [z \in mContainers |-> TRUE]
    /\ reply' = <<>>
    /\ thrown' = FALSE
    /\ prev' = <<>>
    /\ UNCHANGED <<processVars, busVars, ipcVars, extVars>>
    /\ UNCHANGED <<mContainers, defaultId, foregroundId, state, foreground, pc, failed, pending>>

\* a destructor that stops the containers whatever mDetachOnExit says
DestructorStops_Always(detach) == TRUE

\* if (!mDetachOnExit)
DestructorStops(detach) == ~detach

\* the body of the destructor: stopAll() inside try, unless mDetachOnExit
Destructor ==
    /\ pc = Idle
    /\ req' = Req("~ContainersManager", "", "", "")
    /\ calls' = <<>>
    /\ reply' = <<>>
    /\ thrown' = FALSE
    /\ prev' = <<>>
    /\ pc' = IF DestructorStops(mDetachOnExit)
             THEN [name |-> "stopAll", target |-> "", rest |-> StopAllTargets(mContainers),
                   found |-> FALSE, via |-> "destructor"]
             ELSE Members
    /\ UNCHANGED <<processVars, busVars, ipcVars, extVars>>
    /\ UNCHANGED <<mContainers, defaultId, foregroundId, state, foreground, failed, pending,
                   mDetachOnExit, detached>>

\* the position of a manager that no longer exists
Destroyed == [Idle EXCEPT !.name = "destroyed"]

\* what the destruction of a Container object leaves of its zone: a detached one
\* keeps its state, any other is stopped
ContainerDestroyedState(st, isDetached) == IF isDetached THEN st ELSE "STOPPED"

\* after the body: mContainers is destroyed, and with it every Container
DestroyContainers ==
    /\ pc = Members
    /\ state' = [z \in mContainers |-> ContainerDestroyedState(state[z], detached[z])]
    /\ pc' = Destroyed
    /\ UNCHANGED <<processVars, busVars, ipcVars, extVars>>
    /\ UNCHANGED <<mContainers, defaultId, foregroundId, foreground, req, calls, reply, failed,
                   pending, thrown, mDetachOnExit, detached, prev>>

(***************************************************************************)
(* regexMatchVector / ContainersManager::handleContainerMoveFileRequest    *)
(***************************************************************************)
FILE_MOVE_DESTINATION_NOT_FOUND == "FILE_MOVE_DESTINATION_NOT_FOUND"

FILE_MOVE_WRONG_DESTINATION == "FILE_MOVE_WRONG_DESTINATION"

FILE_MOVE_NO_PERMISSIONS_SEND == "FILE_MOVE_NO_PERMISSIONS_SEND"

FILE_MOVE_NO_PERMISSIONS_RECEIVE == "FILE_MOVE_NO_PERMISSIONS_RECEIVE"

FILE_MOVE_FAILED == "FILE_MOVE_FAILED"

FILE_MOVE_SUCCEEDED == "FILE_MOVE_SUCCEEDED"

\* paths are character sequences: /t/a, /t/ab, /e/a
Paths == {<<"/", "t", "/", "a">>, <<"/", "t", "/", "a", "b">>, <<"/", "e", "/", "a">>}

\* a regex is a sequence of literal characters and ".*" tokens
PermittedToSend ==
    ("z1" :> << <<"/", "t", "/", ".*">> >>) @@
    ("z2" :> << <<"/", "e", "/", ".*">>, <<"/", "t", "/", "a">> >>) @@
    ("z3" :> <<>>)

PermittedToRecv ==
    ("z1" :> << <<"/", "t", "/", "a">> >>) @@
    ("z2" :> << <<"/", "t", "/", ".*">> >>) @@
    ("z3" :> << <<"/", "t">>, <<".*", "a">> >>)

ContainersPath == "/var/zones"

\* boost::regex_match: the regex must match the whole string
RECURSIVE RegexMatch(_, _)
RegexMatch(str, re) ==
    IF re = <<>> THEN str = <<>>
    ELSE IF Head(re) = ".*"
         THEN RegexMatch(str, Tail(re)) \/ (str # <<>> /\ RegexMatch(Tail(str), re))
         ELSE str # <<>> /\ Head(str) = Head(re) /\ RegexMatch(Tail(str), Tail(re))

RegexMatchVector(str, v) == \E i \in 1..Len(v) : RegexMatch(str, v[i])

\* a handler that checks the receive permission before the send permission
FileMoveChecks_RecvFirst(src, dst, path) ==
    IF dst \notin mContainers THEN FILE_MOVE_DESTINATION_NOT_FOUND
    ELSE IF src = dst THEN FILE_MOVE_WRONG_DESTINATION
    ELSE IF ~RegexMatchVector(path, PermittedToRecv[dst]) THEN FILE_MOVE_NO_PERMISSIONS_RECEIVE
    ELSE IF ~RegexMatchVector(path, PermittedToSend[src]) THEN FILE_MOVE_NO_PERMISSIONS_SEND
    ELSE ""

\* the checks before the move, in code order: the code of the first that fails, "" if none
FileMoveChecks(src, dst, path) ==
    IF dst \notin mContainers THEN FILE_MOVE_DESTINATION_NOT_FOUND
    ELSE IF src = dst THEN FILE_MOVE_WRONG_DESTINATION
    ELSE IF ~RegexMatchVector(path, PermittedToSend[src]) THEN FILE_MOVE_NO_PERMISSIONS_SEND
    ELSE IF ~RegexMatchVector(path, PermittedToRecv[dst]) THEN FILE_MOVE_NO_PERMISSIONS_RECEIVE
    ELSE ""

\* a handler that notifies whether or not the move succeeded
FileMoveNotification_Always(src, dst, path, moved, notified) ==
    <<Call("sendNotification", dst, <<src, path, FILE_MOVE_SUCCEEDED>>, notified)>>

\* dstContanier.sendNotification(srcContainerId, path, FILE_MOVE_SUCCEEDED), in the else branch
FileMoveNotification(src, dst, path, moved, notified) ==
    IF moved
    THEN <<Call("sendNotification", dst, <<src, path, FILE_MOVE_SUCCEEDED>>, notified)>>
    ELSE <<>>

\* a handler without the try block around sendNotification
FileMoveThrown_NoCatch(moved, notified) == moved /\ ~notified

\* catch (ServerException&) around sendNotification: nothing leaves the handler
FileMoveThrown(moved, notified) == FALSE

\* a handler whose wrong-destination branch lacks its return
FileMoveResults_NoReturn(src, dst, path, moved) ==
    IF src \notin mContainers THEN <<>>
    ELSE IF dst \notin mContainers THEN <<FILE_MOVE_DESTINATION_NOT_FOUND>>
    ELSE (IF src = dst THEN <<FILE_MOVE_WRONG_DESTINATION>> ELSE <<>>) \o
         (IF ~RegexMatchVector(path, PermittedToSend[src])
          THEN <<FILE_MOVE_NO_PERMISSIONS_SEND>>
          ELSE IF ~RegexMatchVector(path, PermittedToRecv[dst])
          THEN <<FILE_MOVE_NO_PERMISSIONS_RECEIVE>>
          ELSE <<IF moved THEN FILE_MOVE_SUCCEEDED ELSE FILE_MOVE_FAILED>>)

\* the codes given to result->set on the path the handler takes, in order: none when the
\* source container is not found, else the code of the failing check or of the move
FileMoveResults(src, dst, path, moved) ==
    IF src \notin mContainers THEN <<>>
    ELSE IF FileMoveChecks(src, dst, path) # "" THEN <<FileMoveChecks(src, dst, path)>>
    ELSE <<IF moved THEN FILE_MOVE_SUCCEEDED ELSE FILE_MOVE_FAILED>>

\* moved: result of utils::moveFile; notified: sendNotification returned without throwing
HandleContainerMoveFileRequest(src, dst, path, moved, notified) ==
    /\ pc = Idle
    /\ req' = Req("FileMoveRequest", src, dst, path)
    /\ reply' = [i \in 1..Len(FileMoveResults(src, dst, path, moved)) |->
                    ValueReply(<<FileMoveResults(src, dst, path, moved)[i]>>)]
    /\ IF src \notin mContainers
       THEN calls' = <<>>
       ELSE IF FileMoveChecks(src, dst, path) # ""
       THEN calls' = <<>>
       ELSE calls' = <<Call("moveFile", "",
                              << <<ContainersPath, src, path>>, <<ContainersPath, dst, path>> >>,
                              moved)>>
                       \o FileMoveNotification(src, dst, path, moved, notified)
    /\ thrown' = (/\ src \in mContainers
                  /\ FileMoveChecks(src, dst, path) = ""
                  /\ FileMoveThrown(moved, notified))
    /\ prev' = <<>>
    /\ UNCHANGED <<processVars, busVars, ipcVars, extVars>>
    /\ UNCHANGED <<mContainers, defaultId, foregroundId, state, foreground, pc, failed,
                   pending, mDetachOnExit, detached>>

(***************************************************************************)
(* ProxyCallPolicy: ordered rules, first match decides, default deny       *)
(***************************************************************************)
\* the characters of the strings that rules and proxy calls are made of
Chars(str) ==
    CASE str = "" -> <<>>
      [] str = "*" -> <<"*">>
      [] str = "/" -> <<"/">>
      [] str = "z?" -> <<"z", "?">>
      [] str = "z1" -> <<"z", "1">>
      [] str = "z2" -> <<"z", "2">>
      [] str = "z3" -> <<"z", "3">>
      [] str = "host" -> <<"h", "o", "s", "t">>
      [] str = "ghost" -> <<"g", "h", "o", "s", "t">>
      [] str = "Ping" -> <<"P", "i", "n", "g">>
      [] str = "Pong" -> <<"P", "o", "n", "g">>
      [] str = "P?ng" -> <<"P", "?", "n", "g">>
      [] str = "org.*" -> <<"o", "r", "g", ".", "*">>
      [] str = "org.foo" -> <<"o", "r", "g", ".", "f", "o", "o">>

\* shell-style glob: * matches any string, ? any one character
RECURSIVE GlobMatch(_, _)
GlobMatch(pat, str) ==
    IF pat = <<>> THEN str = <<>>
    ELSE IF Head(pat) = "*"
         THEN GlobMatch(Tail(pat), str) \/ (str # <<>> /\ GlobMatch(pat, Tail(str)))
         ELSE /\ str # <<>>
              /\ Head(pat) = "?" \/ Head(pat) = Head(str)
              /\ GlobMatch(Tail(pat), Tail(str))

\* an empty pattern matches anything
FieldMatch(pat, str) == pat = "" \/ GlobMatch(Chars(pat), Chars(str))

Rule(effect, caller, target, bus, path, iface, method) ==
    [effect |-> effect, caller |-> caller, target |-> target,
     fields |-> <<bus, path, iface, method>>]

\* mConfig.proxyCallRules
ProxyCallRules ==
    << Rule("ALLOW", "z1", "host", "*", "", "org.*", "*"),
       Rule("DENY", "*", "z3", "", "", "", "P?ng"),
       Rule("ALLOW", "z?", "*", "", "", "", "Ping"),
       Rule("ALLOW", "host", "z?", "org.*", "/", "", "Pong"),
       Rule("DENY", "z1", "", "", "", "", "") >>

RuleMatches(r, caller, target, t) ==
    /\ FieldMatch(r.caller, caller)
    /\ FieldMatch(r.target, target)
    /\ \A k \in 1..4 : FieldMatch(r.fields[k], t[k])

RECURSIVE FirstMatchEffect(_, _, _, _)
FirstMatchEffect(rules, caller, target, t) ==
    IF rules = <<>> THEN "DENY"
    ELSE IF RuleMatches(Head(rules), caller, target, t) THEN Head(rules).effect
    ELSE FirstMatchEffect(Tail(rules), caller, target, t)

IsProxyCallAllowed(caller, target, t) ==
    FirstMatchEffect(ProxyCallRules, caller, target, t) = "ALLOW"

(***************************************************************************)
(* ContainersManager::handleProxyCall                                      *)
(***************************************************************************)
\* a bound on the forwarded calls in flight
MaxPending == 2

ProxyCallers == {HOST_ID, "z1", "z2"}

ProxyTargets == {HOST_ID, "z1", "z3", GHOST}

\* (targetBusName, targetObjectPath, targetInterface, targetMethod)
ProxyMethods == {<<"org.foo", "/", "org.foo", "Ping">>, <<"org.foo", "/", "org.foo", "Pong">>}

\* what the downstream call can come back with: a value, or a dbus::DbusException
DownstreamResults == {[ok |-> TRUE, val |-> "pong"], [ok |-> FALSE, val |-> "no reply"]}

Outcome(r, conn) == [reply |-> r, conn |-> conn]

\* a handler that looks the target up before it asks the policy
ProxyCallOutcome_LookupFirst(caller, target, t) ==
    IF target # HOST_ID /\ target \notin mContainers
    THEN Outcome(<<ErrorReply(ERROR_UNKNOWN_ID, "Unknown proxy call target")>>, "")
    ELSE IF ~IsProxyCallAllowed(caller, target, t)
    THEN Outcome(<<ErrorReply(ERROR_FORBIDDEN, "Proxy call forbidden")>>, "")
    ELSE Outcome(<<>>, target)

\* a handler that misses the return after the forbidden reply
ProxyCallOutcome_NoReturn(caller, target, t) ==
    LET r == IF ~IsProxyCallAllowed(caller, target, t)
             THEN <<ErrorReply(ERROR_FORBIDDEN, "Proxy call forbidden")>>
             ELSE <<>>
    IN
    IF target = HOST_ID THEN Outcome(r, HOST_ID)
    ELSE IF target \notin mContainers
    THEN Outcome(r \o <<ErrorReply(ERROR_UNKNOWN_ID, "Unknown proxy call target")>>, "")
    ELSE Outcome(r, target)

\* the reply set by the handler itself, and the connection the call is forwarded on ("": none)
ProxyCallOutcome(caller, target, t) ==
    IF ~IsProxyCallAllowed(caller, target, t)
    THEN Outcome(<<ErrorReply(ERROR_FORBIDDEN, "Proxy call forbidden")>>, "")
    ELSE IF target = HOST_ID THEN Outcome(<<>>, HOST_ID)
    ELSE IF target \notin mContainers
    THEN Outcome(<<ErrorReply(ERROR_UNKNOWN_ID, "Unknown proxy call target")>>, "")
    ELSE Outcome(<<>>, target)

HandleProxyCall(caller, target, t) ==
    /\ pc = Idle
    /\ Len(pending) < MaxPending
    /\ req' = Req("ProxyCall", caller, target, t)
    /\ LET o == ProxyCallOutcome(caller, target, t) IN
       /\ reply' = o.reply
       /\ IF o.conn = ""
          THEN /\ calls' = <<>>
               /\ UNCHANGED pending
          ELSE /\ calls' = <<Call("proxyCallAsync", o.conn, t, TRUE)>>
               /\ pending' = Append(pending, [caller |-> caller, target |-> target,
                                              conn |-> o.conn, args |-> t,
                                              replies |-> o.reply])
    /\ thrown' = FALSE
    /\ prev' = <<>>
    /\ UNCHANGED <<processVars, busVars, ipcVars, extVars>>
    /\ UNCHANGED <<mContainers, defaultId, foregroundId, state, foreground, pc, failed,
                   mDetachOnExit, detached>>

\* a callback that lets the downstream exception escape
AsyncResultCallback_Rethrow(res) ==
    IF res.ok THEN <<ValueReply(<<res.val>>)>> ELSE <<>>

\* asyncResultCallback: result->set("(v)", value), or setError(ERROR_FORWARDED, e.what())
AsyncResultCallback(res) ==
    IF res.ok
    THEN <<ValueReply(<<res.val>>)>>
    ELSE <<ErrorReply(ERROR_FORWARDED, res.val)>>

RemoveAt(seq, i) == SubSeq(seq, 1, i - 1) \o SubSeq(seq, i + 1, Len(seq))

\* the downstream result of the i-th call in flight arrives
ProxyCallResult(i, res) ==
    /\ pc = Idle
    /\ i \in 1..Len(pending)
    /\ req' = Req("ProxyCallResult", pending[i].caller, pending[i].target, res)
    /\ calls' = <<>>
    /\ reply' = pending[i].replies \o AsyncResultCallback(res)
    /\ pending' = RemoveAt(pending, i)
    /\ thrown' = FALSE
    /\ prev' = <<>>
    /\ UNCHANGED <<processVars, busVars, ipcVars, extVars>>
    /\ UNCHANGED <<mContainers, defaultId, foregroundId, state, foreground, pc, failed,
                   mDetachOnExit, detached>>

Next ==
    \/ StartAll
    \/ StartAllStep
    \/ StartAllFinish
    \/ StopAll
    \/ StopAllStep
    \/ \E id \in ZoneIds \cup {GHOST} : HandleSetActiveContainerCall(id)
    \/ HandleGetActiveContainerIdCall
    \/ SetContainersDetachOnExit
    \/ Destructor
    \/ DestroyContainers
    \/ \E caller \in ZoneIds : DisplayOffHandler(caller)
    \/ FocusBackground
    \/ FocusForeground
    \/ \E src \in ZoneIds, dst \in ZoneIds \cup {GHOST, HOST_ID}, path \in Paths,
          moved \in BOOLEAN, notified \in BOOLEAN :
            HandleContainerMoveFileRequest(src, dst, path, moved, notified)
    \/ \E caller \in ZoneIds, application \in Applications, message \in Messages,
          notified \in BOOLEAN :
            NotifyActiveContainerHandler(caller, application, message, notified)

Spec == Init /\ [][Next]_vars

(***************************************************************************)
(* ContainersManager::ContainersManager and main: start-up of the daemon   *)
(***************************************************************************)
\* the ids the container configurations of a manager configuration may carry
ConfigIds == ZoneIds \cup {HOST_ID}

\* most entries of mConfig.containerConfigs
MaxConfigs == 3

RECURSIVE SeqsUpTo(_, _)
\* the sequences over S of length at most n
SeqsUpTo(S, n) ==
    IF n = 0
    THEN {<<>>}
    ELSE LET shorter == SeqsUpTo(S, n - 1) IN
         shorter \cup {Append(q, x) : q \in shorter, x \in S}

\* main has entered the constructor, which has loaded the configuration
Constructing(configs) ==
    [name |-> "constructor", target |-> "", rest |-> configs, found |-> FALSE, via |-> "main"]

\* an exception is on its way from the constructor to main
Thrown == [Idle EXCEPT !.name = "thrown"]

\* main has returned
Exited == [Idle EXCEPT !.name = "exited"]

InitStartup ==
    /\ mContainers = {}
    /\ defaultId \in {"z1", GHOST}
    /\ foregroundId \in {"", "z1", HOST_ID}
    /\ state = [z \in {} |-> "STOPPED"]
    /\ foreground = [z \in {} |-> FALSE]
    /\ detached = [z \in {} |-> FALSE]
    /\ \E configs \in SeqsUpTo(ConfigIds, MaxConfigs) :
          /\ pc = Constructing(configs)
          /\ req = Req("ContainersManager", configs, "", "")
    /\ calls = <<>>
    /\ reply = <<>>
    /\ failed = FALSE
    /\ pending = <<>>
    /\ thrown = FALSE
    /\ mDetachOnExit = FALSE
    /\ prev = <<>>
    /\ InitProcess
    /\ InitBus
    /\ InitIpc
    /\ InitExt

\* a constructor that accepts every id
ConstructorRejects_Never(id) == FALSE

\* if (id == HOST_ID) throw ContainerOperationException
ConstructorRejects(id) == id = HOST_ID

\* a constructor without the check of the default container
ConstructorDefaultMissing_Never(keys) == FALSE

\* mContainers.find(mConfig.defaultId) == mContainers.end()
ConstructorDefaultMissing(keys) == defaultId \notin keys

\* the constructor is left by an exception: the members built so far are destroyed
ConstructorThrows ==
    /\ thrown' = TRUE
    /\ pc' = Thrown
    /\ mContainers' = {}
    /\ state' = [z \in {} |-> "STOPPED"]
    /\ foreground' = [z \in {} |-> FALSE]
    /\ detached' = [z \in {} |-> FALSE]

\* one iteration of the loop over mConfig.containerConfigs: new Container (which
\* may throw), the reserved-id check, the callbacks, the insert into the map
ConstructContainer ==
    /\ pc.name = "constructor"
    /\ pc.rest # <<>>
    /\ LET id == Head(pc.rest) IN
       \/ /\ ~ConstructorRejects(id)
          /\ calls' = Append(calls, Call("Container", id, <<>>, TRUE))
          /\ mContainers' = mContainers \cup {id}
          /\ state' = [z \in mContainers' |->
                          IF z \in mContainers THEN state[z] ELSE "STOPPED"]
          /\ foreground' = [z \in mContainers' |->
                               IF z \in mContainers THEN foreground[z] ELSE FALSE]
          /\ detached' = [z \in mContainers' |->
                             IF z \in mContainers THEN detached[z] ELSE FALSE]
          /\ pc' = [pc EXCEPT !.rest = Tail(pc.rest)]
          /\ UNCHANGED thrown
       \/ /\ ConstructorRejects(id)
          /\ calls' = Append(calls, Call("Container", id, <<>>, TRUE))
          /\ ConstructorThrows
       \/ /\ calls' = Append(calls, Call("Container", id, <<>>, FALSE))
          /\ ConstructorThrows
    /\ UNCHANGED <<defaultId, foregroundId, req, reply, failed, pending, mDetachOnExit, prev>>
    /\ UNCHANGED <<processVars, busVars, ipcVars, extVars>>

\* after the loop: the check that the default container exists
ConstructCheckDefault ==
    /\ pc.name = "constructor"
    /\ pc.rest = <<>>
    /\ IF ConstructorDefaultMissing(mContainers)
       THEN ConstructorThrows
       ELSE /\ pc' = Idle
            /\ UNCHANGED <<mContainers, state, foreground, detached, thrown>>
    /\ UNCHANGED <<defaultId, foregroundId, req, calls, reply, failed, pending,
                   mDetachOnExit, prev>>
    /\ UNCHANGED <<processVars, busVars, ipcVars, extVars>>

\* main: catch (std::exception& e) { LOGE(...); return 1; }
MainCatch ==
    /\ pc = Thrown
    /\ exitCode' = 1
    /\ pc' = Exited
    /\ UNCHANGED <<mContainers, defaultId, foregroundId, state, foreground, req, calls, reply,
                   failed, pending, thrown, mDetachOnExit, detached, prev>>
    /\ UNCHANGED <<pc2, thrown2, busVars, ipcVars, extVars>>

\* main: return 0 once the daemon has run and its objects are destroyed
MainReturn ==
    /\ pc = Destroyed
    /\ exitCode' = 0
    /\ pc' = Exited
    /\ UNCHANGED <<mContainers, defaultId, foregroundId, state, foreground, req, calls, reply,
                   failed, pending, thrown, mDetachOnExit, detached, prev>>
    /\ UNCHANGED <<pc2, thrown2, busVars, ipcVars, extVars>>

NextStartup ==
    \/ ConstructContainer
    \/ ConstructCheckDefault
    \/ MainCatch
    \/ HandleGetActiveContainerIdCall
    \/ Destructor
    \/ StopAllStep
    \/ DestroyContainers
    \/ MainReturn

SpecStartup == InitStartup /\ [][NextStartup]_vars

\* the proxy-call router, next to the lifecycle operations that start and stop its targets
NextProxy ==
    \/ StartAll
    \/ StartAllStep
    \/ StartAllFinish
    \/ StopAll
    \/ StopAllStep
    \/ \E caller \in ProxyCallers, target \in ProxyTargets, t \in ProxyMethods :
            HandleProxyCall(caller, target, t)
    \/ \E i \in 1..MaxPending, res \in DownstreamResults : ProxyCallResult(i, res)

\* the router reads neither mConfig.defaultId nor mConfig.foregroundId: one configuration
InitProxy == Init /\ defaultId = "z1" /\ foregroundId = "z3"

SpecProxy == InitProxy /\ [][NextProxy]_vars

(***************************************************************************)
(* ContainersManager::handleDbusStateChanged: bus state of the containers  *)
(***************************************************************************)
\* bus addresses a container reports; "" when it lost its bus
DbusAddresses == {"", "unix:path=/run/a", "unix:path=/run/b"}

\* bound on the number of reported changes
MaxSignals == 3

\* a handler that drops the report of a lost bus
DbusStateSignals_SkipDisconnect(containerId, address) ==
    IF address = "" THEN <<>> ELSE << <<containerId, address>> >>

\* mHostConnection.signalContainerDbusState(containerId, dbusAddress)
DbusStateSignals(containerId, address) == << <<containerId, address>> >>

\* a container's bus address changes: it records the address and invokes the callback
\* set by setDbusStateChangedCallback with it
ContainerDbusStateChanged(id, address) ==
    /\ id \in mContainers
    /\ Len(reported) < MaxSignals
    /\ dbusPending[id] = <<>>
    /\ address # dbusAddress[id]
    /\ dbusAddress' = [dbusAddress EXCEPT ![id] = address]
    /\ reported' = Append(reported, <<id, address>>)
    /\ dbusPending' = [dbusPending EXCEPT ![id] = <<address>>]
    /\ UNCHANGED <<hostSignals, nameOwner, emitted, displayOffCalled>>
    /\ UNCHANGED <<mContainers, defaultId, foregroundId, state, foreground, pc, req, calls,
                   reply, failed, pending, thrown, mDetachOnExit, detached, prev,
                   processVars, ipcVars, extVars>>

\* the callback bound to the container id: handleDbusStateChanged(id, address)
HandleDbusStateChanged(containerId) ==
    /\ containerId \in DOMAIN dbusPending
    /\ dbusPending[containerId] # <<>>
    /\ hostSignals' = hostSignals \o DbusStateSignals(containerId, dbusPending[containerId][1])
    /\ dbusPending' = [dbusPending EXCEPT ![containerId] = <<>>]
    /\ UNCHANGED <<dbusAddress, reported, nameOwner, emitted, displayOffCalled>>
    /\ UNCHANGED <<mContainers, defaultId, foregroundId, state, foreground, pc, req, calls,
                   reply, failed, pending, thrown, mDetachOnExit, detached, prev,
                   processVars, ipcVars, extVars>>

NextDbusState ==
    \/ \E id \in ZoneIds, address \in DbusAddresses : ContainerDbusStateChanged(id, address)
    \/ \E id \in ZoneIds : HandleDbusStateChanged(id)

\* the handler reads no manager configuration: one configuration
InitDbusState == Init /\ defaultId = "z1" /\ foregroundId = "z1"

SpecDbusState == InitDbusState /\ [][NextDbusState]_vars

(***************************************************************************)
(* ContainerConnection: the DisplayOff signal of the power manager         *)
(***************************************************************************)
\* clients connected to a container's bus
BusClients == {"c1", "c2"}

\* bound on the number of DisplayOff signals emitted
MaxEmitted == 2

\* a subscription that does not filter on the sender
DisplayOffDelivered_AnySender(id, client) == TRUE

\* the signal reaches the display-off callback: its sender owns the power-manager name
DisplayOffDelivered(id, client) == nameOwner[id] = client

\* DbusNameSetter::setName(client, fake_power_manager_api::BUS_NAME)
SetName(id, client) ==
    /\ nameOwner[id] = ""
    /\ nameOwner' = [nameOwner EXCEPT ![id] = client]
    /\ UNCHANGED <<hostSignals, dbusAddress, reported, dbusPending, emitted, displayOffCalled>>
    /\ UNCHANGED <<mContainers, defaultId, foregroundId, state, foreground, pc, req, calls,
                   reply, failed, pending, thrown, mDetachOnExit, detached, prev,
                   processVars, ipcVars, extVars>>

\* the owner of the name leaves the bus
ReleaseName(id, client) ==
    /\ nameOwner[id] = client
    /\ nameOwner' = [nameOwner EXCEPT ![id] = ""]
    /\ UNCHANGED <<hostSignals, dbusAddress, reported, dbusPending, emitted, displayOffCalled>>
    /\ UNCHANGED <<mContainers, defaultId, foregroundId, state, foreground, pc, req, calls,
                   reply, failed, pending, thrown, mDetachOnExit, detached, prev,
                   processVars, ipcVars, extVars>>

\* client->emitSignal(OBJECT_PATH, INTERFACE, SIGNAL_DISPLAY_OFF) on the bus of container
\* id, and the invocation of the callback set by setDisplayOffCallback when it is delivered
EmitDisplayOffSignal(id, client) ==
    /\ Len(emitted) < MaxEmitted
    /\ emitted' = Append(emitted, [zone |-> id, sender |-> client, owner |-> nameOwner[id]])
    /\ displayOffCalled' = IF DisplayOffDelivered(id, client)
                              THEN Append(displayOffCalled, id)
                              ELSE displayOffCalled
    /\ UNCHANGED <<hostSignals, dbusAddress, reported, dbusPending, nameOwner>>
    /\ UNCHANGED <<mContainers, defaultId, foregroundId, state, foreground, pc, req, calls,
                   reply, failed, pending, thrown, mDetachOnExit, detached, prev,
                   processVars, ipcVars, extVars>>

NextDisplayOff ==
    \/ \E id \in ZoneIds, client \in BusClients : SetName(id, client)
    \/ \E id \in ZoneIds, client \in BusClients : ReleaseName(id, client)
    \/ \E id \in ZoneIds, client \in BusClients : EmitDisplayOffSignal(id, client)

InitDisplayOff == Init /\ defaultId = "z1" /\ foregroundId = "z1"

SpecDisplayOff == InitDisplayOff /\ [][NextDisplayOff]_vars

(***************************************************************************)
(* ContainersManager::focus called from a second thread.  The manager takes *)
(* no lock: the steps of the two threads interleave.  The unsynchronised    *)
(* writes of mConfig.foregroundId are a data race; of its outcomes the     *)
(* model keeps the two values written, in either order.                    *)
(***************************************************************************)
\* the second thread's focus has returned or thrown
Returned2 == [Idle EXCEPT !.name = "returned"]

\* focus takes no mutex: a thread may enter whatever the other thread is doing
Focus2MayEnter == pc2.name \in {"idle", "returned"}

\* entry of focus(containerId) on the second thread: mContainers.at(containerId)
Focus2Enter(id) ==
    /\ Focus2MayEnter
    /\ IF id \in mContainers
       THEN /\ pc2' = [name |-> "focus", target |-> id,
                       rest |-> FocusBackgroundTargets(mContainers),
                       found |-> FALSE, via |-> "caller"]
            /\ thrown2' = FALSE
       ELSE /\ pc2' = Returned2      \* std::out_of_range
            /\ thrown2' = TRUE
    /\ UNCHANGED <<mContainers, defaultId, foregroundId, state, foreground, pc, req, calls,
                   reply, failed, pending, thrown, mDetachOnExit, detached, prev, exitCode,
                   busVars, ipcVars, extVars>>

\* one iteration of the loop on the second thread: container.second->goBackground()
Focus2Background ==
    /\ pc2.name = "focus"
    /\ pc2.rest # <<>>
    /\ LET z == Head(pc2.rest) IN
       \/ /\ foreground' = [foreground EXCEPT ![z] = FALSE]
          /\ pc2' = [pc2 EXCEPT !.rest = Tail(pc2.rest)]
          /\ UNCHANGED <<failed, thrown2>>
       \/ /\ failed' = TRUE             \* goBackground() throws
          /\ thrown2' = TRUE
          /\ pc2' = Returned2
          /\ UNCHANGED foreground
    /\ UNCHANGED <<mContainers, defaultId, foregroundId, state, pc, req, calls,
                   reply, pending, thrown, mDetachOnExit, detached, prev, exitCode,
                   busVars, ipcVars, extVars>>

\* after the loop on the second thread: mConfig.foregroundId = foregroundContainer->getId()
Focus2Record ==
    /\ pc2.name = "focus"
    /\ pc2.rest = <<>>
    /\ foregroundId' = pc2.target
    /\ pc2' = [pc2 EXCEPT !.name = "goForeground"]
    /\ UNCHANGED <<mContainers, defaultId, state, foreground, pc, req, calls,
                   reply, failed, pending, thrown, thrown2, mDetachOnExit, detached, prev,
                   exitCode, busVars, ipcVars, extVars>>

\* the last statement on the second thread: foregroundContainer->goForeground()
Focus2Foreground ==
    /\ pc2.name = "goForeground"
    /\ pc2' = [Returned2 EXCEPT !.target = pc2.target]
    /\ \/ /\ foreground' = [foreground EXCEPT ![pc2.target] = TRUE]
          /\ UNCHANGED <<failed, thrown2>>
       \/ /\ failed' = TRUE             \* goForeground() throws
          /\ thrown2' = TRUE
          /\ UNCHANGED foreground
    /\ UNCHANGED <<mContainers, defaultId, foregroundId, state, pc, req, calls,
                   reply, pending, thrown, mDetachOnExit, detached, prev, exitCode,
                   busVars, ipcVars, extVars>>

\* SetActiveContainer on the bus thread, focus on a caller thread
NextThreads ==
    \/ StartAll
    \/ StartAllStep
    \/ StartAllFinish
    \/ \E id \in ZoneIds \cup {GHOST} : HandleSetActiveContainerCall(id)
    \/ FocusBackground
    \/ FocusForeground
    \/ \E id \in ZoneIds \cup {GHOST} : Focus2Enter(id)
    \/ Focus2Background
    \/ Focus2Record
    \/ Focus2Foreground

InitThreads == Init /\ defaultId = "z1" /\ foregroundId = "z1"

SpecThreads == InitThreads /\ [][NextThreads]_vars

(***************************************************************************)
(* Container::isRunning as the manager's lookups see it, over every state  *)
(* of a container                                                          *)
(***************************************************************************)
\* lock(): RUNNING -> LOCKED
ZoneLock(z) ==
    /\ pc = Idle
    /\ z \in mContainers
    /\ state[z] = "RUNNING"
    /\ state' = [state EXCEPT ![z] = "LOCKED"]
    /\ req' = Req("lock", z, "", "")
    /\ calls' = <<>>
    /\ reply' = <<>>
    /\ UNCHANGED <<mContainers, defaultId, foregroundId, foreground, pc, failed, pending,
                   thrown, mDetachOnExit, detached, prev>>
    /\ UNCHANGED <<processVars, busVars, ipcVars, extVars>>

\* unlock(): LOCKED -> RUNNING
ZoneUnlock(z) ==
    /\ pc = Idle
    /\ z \in mContainers
    /\ state[z] = "LOCKED"
    /\ state' = [state EXCEPT ![z] = "RUNNING"]
    /\ req' = Req("unlock", z, "", "")
    /\ calls' = <<>>
    /\ reply' = <<>>
    /\ UNCHANGED <<mContainers, defaultId, foregroundId, foreground, pc, failed, pending,
                   thrown, mDetachOnExit, detached, prev>>
    /\ UNCHANGED <<processVars, busVars, ipcVars, extVars>>

\* handleGetContainerIdsCall: the keys of the map, in map order; the loop only reads
HandleGetContainerIdsCall ==
    /\ pc = Idle
    /\ req' = Req("GetContainerIds", "", "", "")
    /\ calls' = <<>>
    /\ reply' = <<ValueReply(MapSeq(mContainers))>>
    /\ UNCHANGED <<mContainers, defaultId, foregroundId, state, foreground, pc, failed,
                   pending, thrown, mDetachOnExit, detached, prev>>
    /\ UNCHANGED <<processVars, busVars, ipcVars, extVars>>

\* handleGetContainerDbuses: one (id, getDbusAddress()) entry per key, in map order
HandleGetContainerDbuses ==
    /\ pc = Idle
    /\ req' = Req("GetContainerDbuses", "", "", "")
    /\ calls' = <<>>
    /\ reply' = <<ValueReply([i \in 1..Len(MapSeq(mContainers)) |->
                                <<MapSeq(mContainers)[i],
                                  dbusAddress[MapSeq(mContainers)[i]]>>])>>
    /\ UNCHANGED <<mContainers, defaultId, foregroundId, state, foreground, pc, failed,
                   pending, thrown, mDetachOnExit, detached, prev>>
    /\ UNCHANGED <<processVars, busVars, ipcVars, extVars>>

\* the containers in any of their states, one of them configured as foreground
InitZoneState ==
    /\ mContainers = ZoneIds
    /\ defaultId = "z1"
    /\ foregroundId \in ZoneIds
    /\ state \in [ZoneIds -> ZoneStates]
    /\ foreground = [z \in ZoneIds |-> z = foregroundId /\ state[z] \in {"RUNNING", "LOCKED"}]
    /\ pc = Idle
    /\ req = Req("none", "", "", "")
    /\ calls = <<>>
    /\ reply = <<>>
    /\ failed = FALSE
    /\ pending = <<>>
    /\ thrown = FALSE
    /\ mDetachOnExit = FALSE
    /\ detached = [z \in ZoneIds |-> FALSE]
    /\ prev = <<>>
    /\ InitProcess
    /\ InitBus
    /\ InitIpc
    /\ InitExt

NextZoneState ==
    \/ \E z \in ZoneIds : ZoneLock(z)
    \/ \E z \in ZoneIds : ZoneUnlock(z)
    \/ HandleGetActiveContainerIdCall
    \/ HandleGetContainerIdsCall
    \/ HandleGetContainerDbuses
    \/ \E caller \in ZoneIds, application \in Applications, message \in Messages,
          notified \in BOOLEAN :
            NotifyActiveContainerHandler(caller, application, message, notified)

SpecZoneState == InitZoneState /\ [][NextZoneState]_vars

(***************************************************************************)
(* NotifyActiveContainer on a container's bus, up to the Notification      *)
(* signal on the active container's bus                                    *)
(***************************************************************************)
NotifyApplications == {"testapp", "app2"}

NotifyMessages == {"testmessage"}

MaxNotifications == 2

\* g_variant_new("(ss)", application, message)
NotifyParameters(application, message) == <<application, message>>

\* what the connection hands to the registered callback out of the (ss) tuple
NotifyCallbackArgs(parameters) ==
    [application |-> parameters[1], message |-> parameters[2]]

\* the parameters of the Notification signal: (sss) container, application, message
NotificationSignal(container, application, message) == <<container, application, message>>

\* the signals that the sendNotification calls of a handler emit, each on the bus of the
\* container it was called on; a call that threw emitted nothing
RECURSIVE EmittedNotifications(_)
EmittedNotifications(cs) ==
    IF cs = <<>>
    THEN <<>>
    ELSE LET c == Head(cs) IN
         (IF c.op = "sendNotification" /\ c.ok
          THEN <<[bus |-> c.zone,
                  parameters |-> NotificationSignal(c.arg[1], c.arg[2], c.arg[3])]>>
          ELSE <<>>) \o EmittedNotifications(Tail(cs))

\* a client on the bus of container `bus` calls NotifyActiveContainer(application,
\* message); the connection invokes the callback the constructor bound to that
\* container's id
NotifyActiveContainerCall(bus, application, message, notified) ==
    /\ Len(methodCalls) < MaxNotifications
    /\ LET parameters == NotifyParameters(application, message)
           args == NotifyCallbackArgs(parameters)
       IN
       /\ methodCalls' = Append(methodCalls, [bus |-> bus, parameters |-> parameters])
       /\ NotifyActiveContainerBody(bus, args.application, args.message, notified)
    /\ zoneSignals' = zoneSignals \o EmittedNotifications(calls')
    /\ UNCHANGED <<processVars, busVars, ipcVars, signalVars, clientVars>>

\* the containers running or stopped, one of them configured as foreground
InitNotify ==
    /\ InitZoneState
    /\ \A z \in ZoneIds : state[z] \in {"RUNNING", "STOPPED"}

NextNotify ==
    \E bus \in ZoneIds, application \in NotifyApplications, message \in NotifyMessages,
       notified \in BOOLEAN :
        NotifyActiveContainerCall(bus, application, message, notified)

SpecNotify == InitNotify /\ [][NextNotify]_vars

(***************************************************************************)
(* ipc: getNextMessageID / getNextPeerID                                   *)
(***************************************************************************)
\* width in bits of MessageID and PeerID, scaled down
IdBits == 3

IdModulus == 2 ^ IdBits

\* threads that ask for ids
IdThreads == {"t1", "t2", "t3"}

\* bound on the number of ids handed out
MaxIdCalls == 8

\* a message id generator that never advances
GetNextMessageID_Stuck == gLastMessageID

\* ++gLastMessageID
GetNextMessageID == (gLastMessageID + 1) % IdModulus

\* a peer id generator that never advances
GetNextPeerID_Stuck == gLastPeerID

\* ++gLastPeerID
GetNextPeerID == (gLastPeerID + 1) % IdModulus

ManagerUntouched ==
    UNCHANGED <<mContainers, defaultId, foregroundId, state, foreground, pc, req, calls,
                reply, failed, pending, thrown, mDetachOnExit, detached, prev,
                processVars, busVars>>

\* thread t calls getNextMessageID(): one atomic read-modify-write
GetNextMessageIDCall(t) ==
    /\ Len(messageIds) + Len(peerIds) < MaxIdCalls
    /\ gLastMessageID' = GetNextMessageID
    /\ messageIds' = Append(messageIds, [thread |-> t, id |-> gLastMessageID'])
    /\ UNCHANGED <<gLastPeerID, peerIds, serviceStarted, peers, ipcCalls, returnCallbacks,
                   inFlight, discarded>>
    /\ UNCHANGED extVars
    /\ ManagerUntouched

\* thread t calls getNextPeerID(): one atomic read-modify-write
GetNextPeerIDCall(t) ==
    /\ Len(messageIds) + Len(peerIds) < MaxIdCalls
    /\ gLastPeerID' = GetNextPeerID
    /\ peerIds' = Append(peerIds, [thread |-> t, id |-> gLastPeerID'])
    /\ UNCHANGED <<gLastMessageID, messageIds, serviceStarted, peers, ipcCalls, returnCallbacks,
                   inFlight, discarded>>
    /\ UNCHANGED extVars
    /\ ManagerUntouched

NextIds ==
    \/ \E t \in IdThreads : GetNextMessageIDCall(t)
    \/ \E t \in IdThreads : GetNextPeerIDCall(t)

InitIds == Init /\ defaultId = "z1" /\ foregroundId = "z1"

SpecIds == InitIds /\ [][NextIds]_vars

(***************************************************************************)
(* ipc::Service: calls, responses, timeouts, disconnects, stop             *)
(***************************************************************************)
\* payloads of the requests
IpcData == {"a", "b"}

\* bound on the number of calls made through the service
MaxIpcCalls == 2

\* default of callSync's timeoutMS
DefaultTimeoutMS == 500

\* what a call is given back: a status and, with the response, its payload
Result(status, data) == [status |-> status, data |-> data]

TIMED_OUT == Result("TIMED_OUT", "")

PEER_DISCONNECTED == Result("PEER_DISCONNECTED", "")

SERVICE_STOPPED == Result("SERVICE_STOPPED", "")

\* the response of a peer to a request with payload data
Response(data) == Result("RESPONSE", data)

\* the calls of the table that wait on peer p
WaitingOn(p) == {i \in returnCallbacks : ipcCalls[i].peer = p}

\* a disconnect that unblocks every waiting call
DisconnectUnblocks_All(p) == returnCallbacks

\* the calls a disconnect of peer p unblocks
DisconnectUnblocks(p) == WaitingOn(p)

\* a timeout that leaves the call in the table
TimeoutRemoves_Nothing(i) == {}

\* the table entries a timeout of call i removes
TimeoutRemoves(i) == {i}

\* the table entries a response frame is paired with: same peer, same message id
Paired(f) == {i \in returnCallbacks : ipcCalls[i].peer = f.peer /\ ipcCalls[i].mid = f.mid}

\* call i is given outcome o
Complete(S, o) ==
    [i \in DOMAIN ipcCalls |->
        IF i \in S THEN [ipcCalls[i] EXCEPT !.outcome = Append(@, o)] ELSE ipcCalls[i]]

\* Service::start
ServiceStart ==
    /\ ~serviceStarted
    /\ serviceStarted' = TRUE
    /\ UNCHANGED <<gLastMessageID, gLastPeerID, messageIds, peerIds, peers, ipcCalls,
                   returnCallbacks, inFlight, discarded>>
    /\ UNCHANGED extVars
    /\ ManagerUntouched

\* the Acceptor hands a new peer to the Processor
PeerConnects(p) ==
    /\ serviceStarted
    /\ p \notin peers
    /\ peers' = peers \cup {p}
    /\ UNCHANGED <<gLastMessageID, gLastPeerID, messageIds, peerIds, serviceStarted, ipcCalls,
                   returnCallbacks, inFlight, discarded>>
    /\ UNCHANGED extVars
    /\ ManagerUntouched

\* Processor: a request is given a fresh message id, entered in the table and sent
ProcessorCall(kind, peerFD, data, timeoutMS) ==
    /\ serviceStarted
    /\ peerFD \in peers
    /\ Len(ipcCalls) < MaxIpcCalls
    /\ gLastMessageID' = GetNextMessageID
    /\ ipcCalls' = Append(ipcCalls, [kind |-> kind, peer |-> peerFD, mid |-> gLastMessageID',
                                     data |-> data, timeoutMS |-> timeoutMS,
                                     outcome |-> <<>>])
    /\ returnCallbacks' = returnCallbacks \cup {Len(ipcCalls')}
    /\ inFlight' = inFlight \cup {[peer |-> peerFD, mid |-> gLastMessageID', data |-> data]}
    /\ UNCHANGED <<gLastPeerID, messageIds, peerIds, serviceStarted, peers, discarded>>
    /\ UNCHANGED extVars
    /\ ManagerUntouched

\* Service::callSync: mProcessor.callSync(methodID, peerFD, data, timeoutMS)
CallSync(peerFD, data) == ProcessorCall("sync", peerFD, data, DefaultTimeoutMS)

\* Service::callAsync: mProcessor.callAsync(methodID, peerFD, data, resultCallback)
CallAsync(peerFD, data) == ProcessorCall("async", peerFD, data, 0)

\* Processor: a response frame arrives; frames of one peer arrive in any order
OnResponse(f) ==
    /\ f \in inFlight
    /\ inFlight' = inFlight \ {f}
    /\ IF Paired(f) # {}
       THEN LET i == CHOOSE j \in Paired(f) : \A k \in Paired(f) : j <= k IN
            /\ ipcCalls' = Complete({i}, Response(f.data))
            /\ returnCallbacks' = returnCallbacks \ {i}
            /\ UNCHANGED discarded
       ELSE /\ discarded' = Append(discarded, f)
            /\ UNCHANGED <<ipcCalls, returnCallbacks>>
    /\ UNCHANGED <<gLastMessageID, gLastPeerID, messageIds, peerIds, serviceStarted, peers>>
    /\ UNCHANGED extVars
    /\ ManagerUntouched

\* callSync: timeoutMS elapsed without a response
Timeout(i) ==
    /\ i \in returnCallbacks
    /\ ipcCalls[i].kind = "sync"
    /\ ipcCalls' = Complete({i}, TIMED_OUT)
    /\ returnCallbacks' = returnCallbacks \ TimeoutRemoves(i)
    /\ UNCHANGED <<gLastMessageID, gLastPeerID, messageIds, peerIds, serviceStarted, peers,
                   inFlight, discarded>>
    /\ UNCHANGED extVars
    /\ ManagerUntouched

\* Processor: the connection to peer p is lost
PeerDisconnects(p) ==
    /\ p \in peers
    /\ peers' = peers \ {p}
    /\ ipcCalls' = Complete(DisconnectUnblocks(p), PEER_DISCONNECTED)
    /\ returnCallbacks' = returnCallbacks \ DisconnectUnblocks(p)
    /\ inFlight' = {f \in inFlight : f.peer # p}
    /\ subscribed' = [subscribed EXCEPT ![p] = {}]
    /\ UNCHANGED <<signalled, lastSignal, clientVars, notifyVars>>
    /\ UNCHANGED <<gLastMessageID, gLastPeerID, messageIds, peerIds, serviceStarted, discarded>>
    /\ ManagerUntouched

\* Service::stop
ServiceStop ==
    /\ serviceStarted
    /\ serviceStarted' = FALSE
    /\ peers' = {}
    /\ ipcCalls' = Complete(returnCallbacks, SERVICE_STOPPED)
    /\ returnCallbacks' = {}
    /\ inFlight' = {}
    /\ subscribed' = [p \in DOMAIN subscribed |-> {}]
    /\ UNCHANGED <<signalled, lastSignal, clientVars, notifyVars>>
    /\ UNCHANGED <<gLastMessageID, gLastPeerID, messageIds, peerIds, discarded>>
    /\ ManagerUntouched

NextIpc ==
    \/ ServiceStart
    \/ \E p \in PeerFDs : PeerConnects(p)
    \/ \E p \in PeerFDs, data \in IpcData : CallSync(p, data)
    \/ \E p \in PeerFDs, data \in IpcData : CallAsync(p, data)
    \/ \E f \in inFlight : OnResponse(f)
    \/ \E i \in 1..MaxIpcCalls : Timeout(i)
    \/ \E p \in PeerFDs : PeerDisconnects(p)
    \/ ServiceStop

InitIpcService == Init /\ defaultId = "z1" /\ foregroundId = "z1"

SpecIpc == InitIpcService /\ [][NextIpc]_vars

\* a caller blocked in callSync waits with a timeout: the timer of a waiting call fires
FairIpc == \A i \in 1..MaxIpcCalls : WF_vars(Timeout(i))

SpecIpcFair == SpecIpc /\ FairIpc

(***************************************************************************)
(* ipc::Service::signal                                                    *)
(***************************************************************************)
\* ids of the signals
MethodIDs == {"m1", "m2"}

\* bound on the number of signal() calls
MaxSignalCalls == 2

\* a set of peers as a sequence, in the order of their file descriptors
PeerSeq(S) == SelectSeq(<<"p1", "p2">>, LAMBDA p : p \in S)

\* a signal that goes to every connected peer
SignalTargets_AllPeers(methodID) == peers

\* the peers a signal with this id is sent to: those that registered for it
SignalTargets(methodID) == {p \in peers : methodID \in subscribed[p]}

\* peer p registers for the signal methodID (its addSignalHandler reaches the service)
PeerSubscribes(p, methodID) ==
    /\ serviceStarted
    /\ p \in peers
    /\ methodID \notin subscribed[p]
    /\ subscribed' = [subscribed EXCEPT ![p] = @ \cup {methodID}]
    /\ UNCHANGED <<signalled, lastSignal, clientVars, notifyVars>>
    /\ UNCHANGED <<gLastMessageID, gLastPeerID, messageIds, peerIds, serviceStarted, peers,
                   ipcCalls, returnCallbacks, inFlight, discarded>>
    /\ ManagerUntouched

\* Service::signal: mProcessor.signal(methodID, data)
Signal(methodID, data) ==
    /\ serviceStarted
    /\ Len(lastSignal) < MaxSignalCalls
    /\ lastSignal' = Append(lastSignal, [method |-> methodID, data |-> data])
    /\ signalled' = signalled \o
          [k \in 1..Cardinality(SignalTargets(methodID)) |->
              [peer |-> PeerSeq(SignalTargets(methodID))[k], method |-> methodID,
               data |-> data]]
    /\ UNCHANGED <<subscribed, clientVars, notifyVars>>
    /\ UNCHANGED <<gLastMessageID, gLastPeerID, messageIds, peerIds, serviceStarted, peers,
                   ipcCalls, returnCallbacks, inFlight, discarded>>
    /\ ManagerUntouched

NextSignal ==
    \/ ServiceStart
    \/ \E p \in PeerFDs : PeerConnects(p)
    \/ \E p \in PeerFDs, m \in MethodIDs : PeerSubscribes(p, m)
    \/ \E m \in MethodIDs, data \in IpcData : Signal(m, data)
    \/ \E p \in PeerFDs : PeerDisconnects(p)
    \/ ServiceStop

SpecSignal == InitIpcService /\ [][NextSignal]_vars

(***************************************************************************)
(* Client library: vsm_add_state_callback / vsm_del_state_callback         *)
(***************************************************************************)
\* client handles created by vsm_client_create
VsmClients == {"cl1", "cl2"}

\* bound on the number of subscriptions made
MaxSubscriptions == 4

\* the ids of the subscriptions held
HeldIds == {sub.id : sub \in stateCallbacks}

\* an allocator that hands out the smallest id not held at the moment
NextSubscriptionId_SmallestFree ==
    CHOOSE n \in 1..(MaxSubscriptions + 2) :
        n \notin HeldIds /\ \A m \in 1..(n - 1) : m \in HeldIds

\* ids are assigned monotonically
NextSubscriptionId == nextSubscriptionId + 1

EverythingButClientUntouched ==
    UNCHANGED <<mContainers, defaultId, foregroundId, state, foreground, pc, req, calls,
                reply, failed, pending, thrown, mDetachOnExit, detached, prev,
                processVars, busVars, ipcVars, signalVars, notifyVars>>

\* vsm_add_state_callback: getClient(client).vsm_add_state_callback(callback, data, &id)
VsmAddStateCallback(client) ==
    /\ Len(issuedIds) < MaxSubscriptions
    /\ nextSubscriptionId' = NextSubscriptionId
    /\ stateCallbacks' = stateCallbacks \cup {[client |-> client, id |-> nextSubscriptionId']}
    /\ issuedIds' = Append(issuedIds, [client |-> client, id |-> nextSubscriptionId'])
    /\ EverythingButClientUntouched

\* vsm_del_state_callback: getClient(client).vsm_del_state_callback(subscriptionId)
VsmDelStateCallback(client, subscriptionId) ==
    /\ [client |-> client, id |-> subscriptionId] \in stateCallbacks
    /\ stateCallbacks' = stateCallbacks \ {[client |-> client, id |-> subscriptionId]}
    /\ UNCHANGED <<nextSubscriptionId, issuedIds>>
    /\ EverythingButClientUntouched

NextClient ==
    \/ \E client \in VsmClients : VsmAddStateCallback(client)
    \/ \E client \in VsmClients, id \in 1..(MaxSubscriptions + 2) :
          VsmDelStateCallback(client, id)

InitClient == Init /\ defaultId = "z1" /\ foregroundId = "z1"

SpecClient == InitClient /\ [][NextClient]_vars

(***************************************************************************)
(* Properties                                                              *)
(***************************************************************************)
RunningForeground == {z \in mContainers : foreground[z] /\ state[z] = "RUNNING"}

RunningZones == {z \in mContainers : state[z] = "RUNNING"}

\* positions of the calls of one kind in the call log of the operation
CallsOf(op) == {i \in 1..Len(calls) : calls[i].op = op}

InFocusRequest == req.op \in {"SetActiveContainer", "DisplayOff"}

\* C1: in every reachable state, the intermediate states of focus and startAll
\* included, at most one container is both RUNNING and in foreground.
C1_AtMostOneRunningForeground == Cardinality(RunningForeground) <= 1

\* C1 witness: focus is between its background loop and goForeground of a new
\* target, having just taken the foreground from another running container.
C1_Witness ==
    /\ pc.name = "focus"
    /\ pc.rest = <<>>
    /\ foregroundId # pc.target
    /\ RunningZones = mContainers
    /\ \E i \in CallsOf("goBackground") : calls[i].zone = foregroundId
    /\ ~failed
    /\ RunningForeground = {}

\* C2: within one focus call every container of the map, the target included,
\* has been sent goBackground before goForeground is sent to the target, and no
\* goForeground precedes a goBackground.
C2_BackgroundBeforeForeground ==
    InFocusRequest =>
        \A i \in CallsOf("goForeground") :
            /\ calls[i].zone = (IF pc.name = "focus" THEN pc.target ELSE foregroundId)
            /\ \A z \in mContainers :
                   \E j \in 1..(i - 1) : calls[j] = Call("goBackground", z, <<>>, TRUE)
            /\ \A j \in CallsOf("goBackground") : j < i

\* C2 witness: a focus that has sent goForeground to its target.
C2_Witness ==
    /\ InFocusRequest
    /\ pc = Idle
    /\ CallsOf("goForeground") # {}
    /\ calls[Len(calls)] = Call("goForeground", foregroundId, <<>>, TRUE)
    /\ Cardinality(CallsOf("goBackground")) = Cardinality(mContainers)

C4_FocusOnStoppedRejected ==
    /\ (pc.name = "focus" => ~IsStopped(state[pc.target]))
    /\ (/\ pc = Idle
        /\ req.op = "SetActiveContainer"
        /\ req.a \in mContainers
        /\ IsStopped(state[req.a])
        /\ calls = <<>>)
       => reply = <<ErrorReply(ERROR_CONTAINER_STOPPED,
                               "Could not activate a stopped container")>>

\* C5: SetActiveContainer with an id that is no key of the map replies
\* UNKNOWN_ID, calls no container and leaves mConfig.foregroundId and the
\* foreground flags as they were.
C5_UnknownIdRejected ==
    [][(pc = Idle /\ req'.op = "SetActiveContainer" /\ req'.a \notin mContainers)
       => /\ reply' = <<ErrorReply(ERROR_UNKNOWN_ID, "No such container id")>>
          /\ calls' = <<>>
          /\ pc' = Idle
          /\ UNCHANGED <<foregroundId, foreground, state, mContainers>>]_vars

\* C5 witness: SetActiveContainer of an unknown id was answered while the
\* containers run and one of them is in foreground.
C5_Witness ==
    /\ req = Req("SetActiveContainer", GHOST, "", "")
    /\ pc = Idle
    /\ reply # <<>>
    /\ RunningForeground # {}

FileMoveReply(code) == <<ValueReply(<<code>>)>>

FullyMatchesSome(path, v) == \E i \in 1..Len(v) : RegexMatch(path, v[i])

\* C9: the result code of FileMoveRequest is fixed by the first failing check in
\* the order destination known, destination differs from source, send
\* permission, receive permission, move; the move is attempted only when the
\* four checks before it pass.
C9_FileMoveResultOrder ==
    req.op = "FileMoveRequest" =>
        LET src == req.a
            dst == req.b
            path == req.c
            attempted == CallsOf("moveFile") # {}
            moveOk == \E i \in CallsOf("moveFile") : calls[i].ok
            checksPass == /\ dst \in mContainers
                          /\ src # dst
                          /\ FullyMatchesSome(path, PermittedToSend[src])
                          /\ FullyMatchesSome(path, PermittedToRecv[dst])
        IN
        /\ attempted <=> checksPass
        /\ reply = FileMoveReply(
              IF dst \notin mContainers THEN FILE_MOVE_DESTINATION_NOT_FOUND
              ELSE IF src = dst THEN FILE_MOVE_WRONG_DESTINATION
              ELSE IF ~FullyMatchesSome(path, PermittedToSend[src])
                   THEN FILE_MOVE_NO_PERMISSIONS_SEND
              ELSE IF ~FullyMatchesSome(path, PermittedToRecv[dst])
                   THEN FILE_MOVE_NO_PERMISSIONS_RECEIVE
              ELSE IF ~moveOk THEN FILE_MOVE_FAILED
              ELSE FILE_MOVE_SUCCEEDED)

\* C9 witness: a request that lacks both the send and the receive permission
\* was answered (with the send code).
C9_Witness ==
    /\ req.op = "FileMoveRequest"
    /\ req.b \in mContainers
    /\ req.a # req.b
    /\ ~FullyMatchesSome(req.c, PermittedToSend[req.a])
    /\ ~FullyMatchesSome(req.c, PermittedToRecv[req.b])
    /\ reply = FileMoveReply(FILE_MOVE_NO_PERMISSIONS_SEND)

\* C10: a file-move notification is sent only when the move succeeded: on
\* FILE_MOVE_SUCCEEDED exactly one, to the destination, with sender = source id,
\* application = path, message = FILE_MOVE_SUCCEEDED; otherwise none.
C10_NotifyOnlyOnSuccess ==
    req.op = "FileMoveRequest" =>
        LET sent == CallsOf("sendNotification") IN
        IF reply = FileMoveReply(FILE_MOVE_SUCCEEDED)
        THEN /\ Cardinality(sent) = 1
             /\ \A i \in sent : /\ calls[i].zone = req.b
                                /\ calls[i].arg = <<req.a, req.c, FILE_MOVE_SUCCEEDED>>
        ELSE sent = {}

\* C10 witness: a move succeeded and its destination was notified.
C10_Witness ==
    /\ req.op = "FileMoveRequest"
    /\ reply = FileMoveReply(FILE_MOVE_SUCCEEDED)
    /\ \E i \in CallsOf("sendNotification") : calls[i].zone = req.b /\ calls[i].ok

\* C10 second case: a move failed and nobody was notified.
C10_WitnessFailed ==
    /\ req.op = "FileMoveRequest"
    /\ reply = FileMoveReply(FILE_MOVE_FAILED)
    /\ CallsOf("sendNotification") = {}

\* the first rule of the list that matches the call exists and has effect ALLOW
FirstMatchIsAllow(caller, target, t) ==
    \E i \in 1..Len(ProxyCallRules) :
        /\ RuleMatches(ProxyCallRules[i], caller, target, t)
        /\ ProxyCallRules[i].effect = "ALLOW"
        /\ \A j \in 1..(i - 1) : ~RuleMatches(ProxyCallRules[j], caller, target, t)

SomeAllowMatches(caller, target, t) ==
    \E i \in 1..Len(ProxyCallRules) :
        /\ RuleMatches(ProxyCallRules[i], caller, target, t)
        /\ ProxyCallRules[i].effect = "ALLOW"

Forwarded == CallsOf("proxyCallAsync") # {}

ForbiddenReply == <<ErrorReply(ERROR_FORBIDDEN, "Proxy call forbidden")>>

UnknownTargetReply == <<ErrorReply(ERROR_UNKNOWN_ID, "Unknown proxy call target")>>

\* C6 as stated: a proxy call is forwarded downstream iff the first rule that
\* matches it has effect ALLOW; when the first match is DENY or no rule matches,
\* the reply is ERROR_FORBIDDEN and no downstream call is made.
C6_ForwardedIffFirstMatchAllows ==
    req.op = "ProxyCall" =>
        /\ Forwarded <=> FirstMatchIsAllow(req.a, req.b, req.c)
        /\ ~FirstMatchIsAllow(req.a, req.b, req.c) => (reply = ForbiddenReply /\ calls = <<>>)

\* C6 amended: a proxy call is forwarded downstream iff the first rule that
\* matches it has effect ALLOW and its target is "host" or a key of the
\* container map; when the first match is DENY or no rule matches, the reply is
\* ERROR_FORBIDDEN and no downstream call is made.
C6_ForwardedIffAllowedAndTargetKnown ==
    req.op = "ProxyCall" =>
        /\ Forwarded <=> (/\ FirstMatchIsAllow(req.a, req.b, req.c)
                          /\ req.b = HOST_ID \/ req.b \in mContainers)
        /\ ~FirstMatchIsAllow(req.a, req.b, req.c) => (reply = ForbiddenReply /\ calls = <<>>)

\* C6 witness: a call whose first match is a DENY rule, although a later ALLOW
\* rule matches it too, was answered ERROR_FORBIDDEN.
C6_Witness ==
    /\ req.op = "ProxyCall"
    /\ ~FirstMatchIsAllow(req.a, req.b, req.c)
    /\ SomeAllowMatches(req.a, req.b, req.c)
    /\ reply = ForbiddenReply
    /\ ~Forwarded

\* C7: a policy-allowed proxy call to a target other than "host" is forwarded
\* on the target's bus only if the target is a container of the map that is
\* running; if the id is unknown or the container is not running, the reply is
\* ERROR_UNKNOWN_ID and nothing is forwarded.
C7_ForwardedOnlyToRunningTarget ==
    (req.op = "ProxyCall" /\ FirstMatchIsAllow(req.a, req.b, req.c) /\ req.b # HOST_ID) =>
        IF req.b \in mContainers /\ IsRunning(state[req.b])
        THEN \A i \in CallsOf("proxyCallAsync") : calls[i].zone = req.b
        ELSE reply = UnknownTargetReply /\ ~Forwarded

\* C8: a forwarded proxy call has no outer reply while its downstream result is
\* outstanding (the handler has returned without one), and gets exactly one
\* when the result arrives: the downstream value, or ERROR_FORWARDED with the
\* downstream reason.
C8_OneReplyOnDownstreamResult ==
    /\ \A i \in 1..Len(pending) : pending[i].replies = <<>>
    /\ (req.op = "ProxyCall" /\ Forwarded) =>
           /\ reply = <<>>
           /\ pc = Idle
           /\ pending # <<>>
           /\ pending[Len(pending)].conn = calls[1].zone
    /\ req.op = "ProxyCallResult" =>
           reply = <<IF req.c.ok
                     THEN ValueReply(<<req.c.val>>)
                     ELSE ErrorReply(ERROR_FORWARDED, req.c.val)>>

\* C8 witness: one of two calls in flight came back with a downstream error and
\* was answered ERROR_FORWARDED, the other is still waiting.
C8_Witness ==
    /\ req.op = "ProxyCallResult"
    /\ ~req.c.ok
    /\ Len(reply) = 1
    /\ reply[1].val = ERROR_FORWARDED
    /\ Len(pending) = 1

\* the notification of a successful move was attempted and threw
FileMoveNotificationFailed ==
    /\ req.op = "FileMoveRequest"
    /\ \E i \in CallsOf("moveFile") : calls[i].ok
    /\ \E i \in CallsOf("sendNotification") : ~calls[i].ok

DisplayOffCondition ==
    \E z \in mContainers :
        /\ z = foregroundId
        /\ IsRunning(state[z])
        /\ SwitchToDefaultAfterTimeout[z]

\* C13: a display-off event enters focus(mConfig.defaultId) when a running
\* foreground container exists and its switchToDefaultAfterTimeout is true; in
\* every other case the handler returns at once and neither a foreground flag
\* nor mConfig.foregroundId changes and no container is called.
C13_DisplayOffSwitchesOrKeeps ==
    [][(pc = Idle /\ req'.op = "DisplayOff") =>
         IF DisplayOffCondition
         THEN /\ pc'.name = "focus"
              /\ pc'.target = defaultId
              /\ pc'.rest = MapSeq(mContainers)
         ELSE /\ pc' = Idle
              /\ foreground' = foreground
              /\ foregroundId' = foregroundId
              /\ calls' = <<>>
              /\ ~thrown']_vars

\* C13 witness: a display-off event that switched to the default container.
C13_Witness ==
    /\ req.op = "DisplayOff"
    /\ pc = Idle
    /\ ~thrown
    /\ Len(calls) = Cardinality(mContainers) + 1
    /\ foregroundId = defaultId
    /\ foreground[defaultId]

\* C13 second case: a display-off event while a container without the flag is
\* the running foreground one changes nothing.
C13_WitnessKept ==
    /\ req.op = "DisplayOff"
    /\ pc = Idle
    /\ calls = <<>>
    /\ RunningForeground # {}
    /\ \A z \in RunningForeground : ~SwitchToDefaultAfterTimeout[z]

\* the containers that were sent a notification by the operation in req
NotifiedZones == {calls[i].zone : i \in CallsOf("sendNotification")}

\* C12: NotifyActiveContainer from a caller sends the notification (caller,
\* application, message) to container z iff z is the running container named by
\* mConfig.foregroundId and z is not the caller: never to the caller, to another
\* container or to a foreground container that is not running, and to nobody when
\* there is no running foreground container. As long as no container operation
\* has thrown, the receiver's foreground flag is set.
C12_NotifyOnlyRunningForeground ==
    req.op = "NotifyActiveContainer" =>
        /\ \A z \in mContainers \cup {"", GHOST, HOST_ID} :
              z \in NotifiedZones <=>
                 /\ z \in mContainers
                 /\ z = foregroundId
                 /\ IsRunning(state[z])
                 /\ z # req.a
        /\ NotifiedZones \subseteq mContainers
        /\ Len(calls) <= 1
        /\ \A i \in 1..Len(calls) :
              /\ calls[i].op = "sendNotification"
              /\ calls[i].arg = <<req.a, req.b, req.c>>
        /\ ~failed => \A z \in NotifiedZones : foreground[z]
        /\ ~thrown

\* C12 witness: a notification from a background container reached the running
\* foreground container.
C12_Witness ==
    /\ req.op = "NotifyActiveContainer"
    /\ calls # <<>>
    /\ calls[1].ok
    /\ calls[1].zone # req.a
    /\ calls[1].zone \in RunningForeground

\* C12 second case: the running foreground container itself called; nothing is sent.
C12_WitnessCaller ==
    /\ req.op = "NotifyActiveContainer"
    /\ req.a \in RunningForeground
    /\ calls = <<>>

\* position of an id in the key order of the map
IdPosition(z) == CHOOSE i \in 1..Len(ZoneOrder) : ZoneOrder[i] = z

\* z has the numerically smallest privilege of the map and, among the containers
\* of that privilege, the first id
SmallestPrivilegeFirstId(z) ==
    /\ z \in mContainers
    /\ \A y \in mContainers :
          \/ Privilege[z] < Privilege[y]
          \/ Privilege[z] = Privilege[y] /\ IdPosition(z) <= IdPosition(y)

\* C14: when mConfig.foregroundId is empty or names no container, startAll sends
\* no goForeground inside its loop and, once every container is started, records
\* in mConfig.foregroundId the container of smallest privilege (the first id
\* among equals) and calls goForeground on it; when that call returns, this
\* container is the one running foreground container.
C14_StartAllPicksSmallestPrivilege ==
    [][(pc.name = "startAll" /\ pc.rest = <<>> /\ foregroundId \notin mContainers) =>
         /\ \A i \in 1..Len(calls) : calls[i].op = "start" /\ calls[i].ok
         /\ {calls[i].zone : i \in 1..Len(calls)} = mContainers
         /\ SmallestPrivilegeFirstId(foregroundId')
         /\ pc' = Idle
         /\ \E ok \in BOOLEAN :
               /\ calls' = Append(calls, Call("goForeground", foregroundId', <<>>, ok))
               /\ thrown' = ~ok
               /\ ok => /\ foreground'[foregroundId']
                        /\ RunningForeground' = {foregroundId'}]_vars

\* C14 witness: a startAll that found no configured foreground container and
\* brought z2 (privilege 1, as z3, and before it in id order) to the foreground.
C14_Witness ==
    /\ req.op = "startAll"
    /\ pc = Idle
    /\ ~thrown
    /\ Len(calls) = Cardinality(mContainers) + 1
    /\ calls[Len(calls)] = Call("goForeground", "z2", <<>>, TRUE)
    /\ calls[Len(calls) - 1].op = "start"
    /\ foregroundId = "z2"
    /\ Privilege["z2"] = Privilege["z3"]
    /\ RunningForeground = {"z2"}

\* C15: while startAll runs with mConfig.foregroundId naming a container of the
\* map, mConfig.foregroundId never changes, every goForeground goes to that
\* container, the container's successful start is followed at once by its
\* goForeground, and a startAll that returns has sent exactly one goForeground.
C15_StartAllKeepsConfiguredForeground ==
    [][(pc.name = "startAll" /\ foregroundId \in mContainers) =>
         /\ foregroundId' = foregroundId
         /\ \A i \in CallsOf("goForeground")' : calls'[i].zone = foregroundId
         /\ \A i \in 1..Len(calls') :
               calls'[i] = Call("start", foregroundId, <<>>, TRUE) =>
                  /\ i < Len(calls')
                  /\ calls'[i + 1].op = "goForeground"
         /\ (pc' = Idle /\ ~thrown') => Cardinality(CallsOf("goForeground")') = 1]_vars

\* C15 witness: a startAll that returned after foregrounding the configured z1
\* right after its start, before the other containers were started.
C15_Witness ==
    /\ req.op = "startAll"
    /\ pc = Idle
    /\ ~thrown
    /\ foregroundId = "z1"
    /\ Len(calls) = Cardinality(mContainers) + 1
    /\ calls[1] = Call("start", "z1", <<>>, TRUE)
    /\ calls[2] = Call("goForeground", "z1", <<>>, TRUE)
    /\ RunningForeground = {"z1"}

\* C16: when SetActiveContainer(id) on a running container has returned (void
\* reply) and GetActiveContainerId is the next operation, its reply is id.
C16_GetAfterSetReturnsId ==
    [][(/\ pc = Idle
        /\ req.op = "SetActiveContainer"
        /\ req.a \in mContainers
        /\ IsRunning(state[req.a])
        /\ reply = <<VoidReply>>
        /\ req'.op = "GetActiveContainerId") =>
           /\ reply' = <<ValueReply(<<req.a>>)>>
           /\ pc' = Idle]_vars

\* C16 witness: GetActiveContainerId, served right after a SetActiveContainer(z2)
\* that returned, answered z2 (not the default container, and z1 runs as well).
C16_Witness ==
    /\ req.op = "GetActiveContainerId"
    /\ prev = <<"z2">>
    /\ reply = <<ValueReply(<<"z2">>)>>
    /\ foreground["z2"]
    /\ state["z1"] = "RUNNING"
    /\ defaultId # "z2"

\* a focus(id) that directly followed a returned focus(id) has returned as well
RepeatedFocusReturned ==
    /\ InFocusRequest
    /\ pc = Idle
    /\ calls # <<>>
    /\ ~thrown
    /\ prev # <<>>

\* C17: focus(id) is idempotent: when focus(id) has returned and a second
\* focus(id) follows it directly and returns, every container's foreground flag
\* and mConfig.foregroundId are what they were after the first.
C17_FocusIdempotent == RepeatedFocusReturned => Observable = prev[1]

\* C17 witness: z2 was focused twice in a row while another container runs too;
\* the second focus sent z2 to background and back.
C17_Witness ==
    /\ RepeatedFocusReturned
    /\ req = Req("SetActiveContainer", "z2", "", "")
    /\ prev[1].foregroundId = "z2"
    /\ prev[1].foreground["z2"]
    /\ Call("goBackground", "z2", <<>>, TRUE) \in {calls[i] : i \in 1..Len(calls)}
    /\ RunningForeground = {"z2"}
    /\ Cardinality(RunningZones) > 1

\* stopAll has been left, called as an operation or by the destructor
StopAllOver ==
    \/ req.op = "stopAll" /\ pc = Idle
    \/ req.op = "~ContainersManager" /\ ~mDetachOnExit /\ pc \in {Members, Destroyed}

\* C18 as stated: whenever stopAll is over, stop() was called on every container
\* of the map, also after a stop() that failed, and no exception left stopAll.
C18_StopAllStopsEveryZone ==
    StopAllOver =>
        /\ \A z \in mContainers : \E i \in CallsOf("stop") : calls[i].zone = z
        /\ ~thrown

\* C19: a stopAll that directly follows a startAll, both returning without an
\* exception and with no detach requested, has called stop() on every container
\* and leaves every container STOPPED.
C19_StartAllStopAllLeavesStopped ==
    (/\ req.op = "stopAll"
     /\ pc = Idle
     /\ prev = <<"startAll">>
     /\ ~thrown
     /\ ~mDetachOnExit) =>
        /\ \A z \in mContainers : state[z] = "STOPPED"
        /\ calls = [i \in 1..Len(MapSeq(mContainers)) |->
                       Call("stop", MapSeq(mContainers)[i], <<>>, TRUE)]

\* C19 witness: startAll then stopAll returned; a foreground flag that startAll
\* set is still there, and every container is STOPPED.
C19_Witness ==
    /\ req.op = "stopAll"
    /\ pc = Idle
    /\ prev = <<"startAll">>
    /\ ~failed
    /\ ~mDetachOnExit
    /\ Len(calls) = Cardinality(mContainers)
    /\ \E z \in mContainers : foreground[z]
    /\ \A z \in mContainers : state[z] = "STOPPED"

\* C20: in every step of the destruction of the manager: when mDetachOnExit is
\* set, every container is marked detached, no container is called and every
\* container keeps its state; otherwise the destructor enters stopAll over the
\* whole map, the only calls are stop() in map order, and no exception leaves
\* the destructor.
C20_TeardownStopsIffNotDetached ==
    [][req'.op = "~ContainersManager" =>
         IF mDetachOnExit
         THEN /\ \A z \in mContainers : detached[z]
              /\ calls' = <<>>
              /\ state' = state
              /\ pc' \in {Members, Destroyed}
         ELSE /\ pc = Idle => /\ pc'.name = "stopAll"
                              /\ pc'.rest = MapSeq(mContainers)
              /\ \A i \in 1..Len(calls') :
                    /\ calls'[i].op = "stop"
                    /\ calls'[i].zone = MapSeq(mContainers)[i]
              /\ pc' = Members =>
                    \/ Len(calls') = Cardinality(mContainers)
                    \/ ~calls'[Len(calls')].ok
              /\ ~thrown']_vars

\* C20 witness: a manager destroyed after setContainersDetachOnExit: no call was
\* made and containers still run.
C20_Witness ==
    /\ req.op = "~ContainersManager"
    /\ pc = Destroyed
    /\ mDetachOnExit
    /\ calls = <<>>
    /\ Cardinality(RunningZones) = Cardinality(mContainers)

\* C20 second case: a manager destroyed without detach stopped every container.
C20_WitnessStopped ==
    /\ req.op = "~ContainersManager"
    /\ pc = Destroyed
    /\ ~mDetachOnExit
    /\ Len(calls) = Cardinality(mContainers)
    /\ \A i \in 1..Len(calls) : calls[i].op = "stop" /\ calls[i].ok
    /\ \E z \in mContainers : foreground[z]

\* the manager object exists: its constructor has returned and it is not destroyed
ManagerExists == pc.name \notin {"constructor", "thrown", "exited", "destroyed"}

\* C21 as stated: the reserved id "host" is never a key of the container map,
\* neither after construction nor after any later operation.
C21_HostNeverAKey == HOST_ID \notin mContainers

\* the construction half of C21: while the manager is constructed, and as long as
\* GetActiveContainerId was not served, "host" is no key of the map
C21_ConstructionRejectsHost ==
    (req.op = "ContainersManager" \/ req.op = "~ContainersManager") =>
        HOST_ID \notin mContainers

\* C22: a manager exists only with mConfig.defaultId a key of its map; a
\* constructor that finds no such key throws and its map is destroyed, no
\* operation is ever served, and main answers the exception with exit code 1.
C22_DefaultMustExist ==
    /\ [][(pc.name = "constructor" /\ pc.rest = <<>> /\ defaultId \notin mContainers) =>
             /\ pc' = Thrown
             /\ thrown'
             /\ mContainers' = {}]_vars
    /\ [][pc = Thrown => (pc' = Exited /\ exitCode' = 1)]_vars
    /\ [](ManagerExists => defaultId \in mContainers)
    /\ [](exitCode = 1 => (pc = Exited /\ mContainers = {} /\ req.op = "ContainersManager"))

\* C22 witness: every configured container was created, none is called ghost, the
\* default id is ghost: the daemon has exited with code 1.
C22_Witness ==
    /\ exitCode = 1
    /\ defaultId = GHOST
    /\ Len(req.a) = MaxConfigs
    /\ Len(calls) = Len(req.a)
    /\ \A i \in 1..Len(calls) : calls[i].ok /\ calls[i].zone # HOST_ID

\* C22 second case: a constructed manager, its default container in the map.
C22_WitnessConstructed ==
    /\ req.op = "ContainersManager"
    /\ pc = Idle
    /\ defaultId \in mContainers
    /\ Cardinality(mContainers) > 1

\* the signals emitted on the host bus for container z, and the changes z reported
SignalsOf(z) == SelectSeq(hostSignals, LAMBDA s : s[1] = z)

ReportedOf(z) == SelectSeq(reported, LAMBDA s : s[1] = z)

\* C23: every bus-address change a container reports (connect and disconnect alike)
\* produces exactly one signal on the host bus with that container's id and the new
\* address, and one container's signals follow the order of its changes: the signals of
\* z are the changes of z, less the one whose callback is still running
C23_OneSignalPerDbusChange ==
    /\ \A i \in 1..Len(hostSignals) : hostSignals[i][1] \in ZoneIds
    /\ \A z \in ZoneIds :
          IF dbusPending[z] = <<>>
             THEN SignalsOf(z) = ReportedOf(z)
             ELSE /\ ReportedOf(z) # <<>>
                  /\ SignalsOf(z) = SubSeq(ReportedOf(z), 1, Len(ReportedOf(z)) - 1)
                  /\ dbusPending[z] = <<ReportedOf(z)[Len(ReportedOf(z))][2]>>

\* a container connected and disconnected, another container's signal in between
C23_Witness ==
    /\ Len(hostSignals) = 3
    /\ hostSignals[1][1] = hostSignals[3][1]
    /\ hostSignals[2][1] # hostSignals[1][1]
    /\ hostSignals[1][2] # ""
    /\ hostSignals[3][2] = ""

\* C25: the display-off callback of a container is invoked for a DisplayOff signal iff
\* the sender owned the power-manager bus name when it emitted the signal
C25_DisplayOffOnlyFromNameOwner ==
    /\ Len(displayOffCalled) =
          Cardinality({i \in 1..Len(emitted) : emitted[i].sender = emitted[i].owner})
    /\ displayOffCalled =
          [i \in 1..Len(displayOffCalled) |->
              SelectSeq(emitted, LAMBDA e : e.sender = e.owner)[i].zone]

\* the same client emits twice on one bus: before it has the name (no callback) and
\* after it acquired it (callback)
C25_Witness ==
    /\ Len(emitted) = 2
    /\ emitted[1].sender = emitted[2].sender
    /\ emitted[1].zone = emitted[2].zone
    /\ emitted[1].owner = ""
    /\ emitted[2].owner = emitted[2].sender
    /\ displayOffCalled = <<emitted[2].zone>>

\* C24: GetActiveContainerId answers with mConfig.foregroundId when that names a running
\* container and with the empty string in every other case, also when foregroundId is
\* empty or names no container of the map
C24_ActiveIdOrEmpty ==
    req.op = "GetActiveContainerId" =>
        reply = <<ValueReply(<<IF /\ foregroundId \in DOMAIN state
                                  /\ state[foregroundId] = "RUNNING"
                               THEN foregroundId
                               ELSE "">>)>>

\* the call with a foregroundId that is a key of the map is answered as C24 says
C24_KnownIdAnswered ==
    (req.op = "GetActiveContainerId" /\ pc = Idle) => C24_ActiveIdOrEmpty

\* both threads have completed a focus: SetActiveContainer was answered with success on
\* the bus thread and the second thread's focus returned without an exception
BothFocusCompleted ==
    /\ pc = Idle
    /\ req.op = "SetActiveContainer"
    /\ reply = <<VoidReply>>
    /\ pc2.name = "returned"
    /\ pc2.target # ""
    /\ ~thrown2

\* C26: for every interleaving of two focus calls made from different threads, once
\* both have completed exactly one container is foreground and it is the one named by
\* mConfig.foregroundId
C26_ConcurrentFocusOneForeground ==
    BothFocusCompleted =>
        /\ Cardinality({z \in DOMAIN foreground : foreground[z]}) = 1
        /\ foregroundId \in DOMAIN foreground
        /\ foreground[foregroundId]

\* the ids handed out before the counter wraps
PreWrap(q) == SubSeq(q, 1, IF Len(q) < IdModulus - 1 THEN Len(q) ELSE IdModulus - 1)

\* C27: the values getNextMessageID() and getNextPeerID() return to any threads are
\* pairwise distinct until the counter wraps, and those returned to one thread are
\* strictly increasing
C27_IdsDistinctAndIncreasing ==
    \A q \in {PreWrap(messageIds), PreWrap(peerIds)} :
        \A i, j \in 1..Len(q) :
            i < j => /\ q[i].id # q[j].id
                     /\ (q[i].thread = q[j].thread => q[i].id < q[j].id)

\* three threads took message ids in turn, one of them twice, and two took peer ids
C27_Witness ==
    /\ Len(messageIds) = 4
    /\ messageIds[1].thread = "t1"
    /\ messageIds[2].thread = "t2"
    /\ messageIds[3].thread = "t3"
    /\ messageIds[4].thread = "t1"
    /\ Len(peerIds) = 2
    /\ peerIds[1].thread # peerIds[2].thread

\* the message id counter wrapped
C27_WitnessWrapped ==
    /\ Len(messageIds) = IdModulus
    /\ messageIds[IdModulus].id = 0

\* what a call through the service may be given back
Responses == {Response(d) : d \in IpcData}

Waiting(i) == i \in DOMAIN ipcCalls /\ ipcCalls[i].outcome = <<>>

\* call i is a callSync
SyncCall(i) == i \in DOMAIN ipcCalls /\ ipcCalls[i].kind = "sync"

\* call i has returned to its caller
Returned(i) == i \in DOMAIN ipcCalls /\ ipcCalls[i].outcome # <<>>

\* call i is given outcome o in this step
Given(i, o) == Waiting(i) /\ ipcCalls'[i].outcome = <<o>>

\* C28: every callSync eventually returns with exactly one outcome: the matching
\* response, TIMED_OUT, PEER_DISCONNECTED when its peer disconnects, SERVICE_STOPPED when
\* the service stops; the disconnect of one peer leaves the calls on other peers waiting
C28_CallSyncReturnsOnce ==
    /\ [](\A i \in DOMAIN ipcCalls :
            ipcCalls[i].kind = "sync" =>
                /\ Len(ipcCalls[i].outcome) <= 1
                /\ \A k \in 1..Len(ipcCalls[i].outcome) :
                      ipcCalls[i].outcome[k] \in
                          Responses \cup {TIMED_OUT, PEER_DISCONNECTED, SERVICE_STOPPED})
    /\ \A i \in 1..MaxIpcCalls : SyncCall(i) ~> Returned(i)
    /\ [][\A i \in DOMAIN ipcCalls :
            (ipcCalls[i].kind = "sync" /\ Waiting(i) /\ ipcCalls'[i].outcome # <<>>) =>
                \/ /\ Given(i, PEER_DISCONNECTED)
                   /\ ipcCalls[i].peer \in peers \ peers'
                   /\ serviceStarted'
                \/ /\ Given(i, SERVICE_STOPPED)
                   /\ serviceStarted /\ ~serviceStarted'
                \/ /\ Given(i, TIMED_OUT)
                   /\ UNCHANGED <<peers, serviceStarted, inFlight>>
                \/ /\ \E f \in inFlight \ inFlight' :
                         /\ f.peer = ipcCalls[i].peer
                         /\ f.mid = ipcCalls[i].mid
                         /\ Given(i, Response(f.data))
                   /\ UNCHANGED <<peers, serviceStarted>>]_vars
    /\ [][\A p \in PeerFDs :
            (p \in peers /\ peers' = peers \ {p} /\ serviceStarted') =>
                \A i \in DOMAIN ipcCalls :
                    ipcCalls[i].peer # p => ipcCalls'[i] = ipcCalls[i]]_vars

\* one peer disconnected while a callSync waited on it and another on the other peer:
\* the first returned PEER_DISCONNECTED, the second still waits
C28_Witness ==
    \E i, j \in DOMAIN ipcCalls :
        /\ ipcCalls[i].kind = "sync"
        /\ ipcCalls[j].kind = "sync"
        /\ ipcCalls[i].peer # ipcCalls[j].peer
        /\ ipcCalls[i].outcome = <<PEER_DISCONNECTED>>
        /\ j \in returnCallbacks
        /\ ipcCalls[j].peer \in peers

\* a callSync returned SERVICE_STOPPED
C28_WitnessStopped ==
    \E i \in DOMAIN ipcCalls :
        ipcCalls[i].kind = "sync" /\ ipcCalls[i].outcome = <<SERVICE_STOPPED>>

\* the response frame f answers a request whose callSync returned TIMED_OUT
LateResponse(f) ==
    \E i \in DOMAIN ipcCalls :
        /\ ipcCalls[i].peer = f.peer
        /\ ipcCalls[i].mid = f.mid
        /\ ipcCalls[i].outcome # <<>>
        /\ ipcCalls[i].outcome[1] = TIMED_OUT

\* C29: a response that arrives after its callSync returned TIMED_OUT is discarded: no
\* call, waiting or returned, is given anything and the table of waiting calls is as it
\* was; the timed-out call keeps its single outcome
C29_LateResponseDiscarded ==
    /\ [][\A f \in inFlight :
            (f \notin inFlight' /\ peers' = peers /\ serviceStarted' = serviceStarted
                /\ LateResponse(f)) =>
                /\ ipcCalls' = ipcCalls
                /\ returnCallbacks' = returnCallbacks
                /\ discarded' = Append(discarded, f)]_vars
    /\ [](\A i \in DOMAIN ipcCalls :
            (ipcCalls[i].outcome # <<>> /\ ipcCalls[i].outcome[1] = TIMED_OUT) =>
                /\ ipcCalls[i].outcome = <<TIMED_OUT>>
                /\ i \notin returnCallbacks)

\* the response to a timed-out call arrived and was dropped while another call on the
\* same peer was still waiting
C29_Witness ==
    /\ discarded # <<>>
    /\ \E i, j \in DOMAIN ipcCalls :
          /\ ipcCalls[i].outcome = <<TIMED_OUT>>
          /\ discarded[1].mid = ipcCalls[i].mid
          /\ discarded[1].peer = ipcCalls[i].peer
          /\ j \in returnCallbacks
          /\ ipcCalls[j].peer = ipcCalls[i].peer

\* C30: a response completes the call whose request carried its message id, whatever
\* the order in which the responses of one peer arrive
C30_ResponsePairedByMessageId ==
    /\ [][\A i \in DOMAIN ipcCalls :
            (ipcCalls'[i].outcome # ipcCalls[i].outcome
                /\ ipcCalls'[i].outcome[Len(ipcCalls'[i].outcome)] \in Responses) =>
                \E f \in inFlight \ inFlight' :
                    /\ f.peer = ipcCalls[i].peer
                    /\ f.mid = ipcCalls[i].mid
                    /\ f.data = ipcCalls[i].data
                    /\ ipcCalls'[i].outcome = <<Response(f.data)>>]_vars
    /\ [](\A i \in DOMAIN ipcCalls :
            \A k \in 1..Len(ipcCalls[i].outcome) :
                ipcCalls[i].outcome[k] \in Responses =>
                    ipcCalls[i].outcome[k] = Response(ipcCalls[i].data))

\* two requests with different payloads outstanding on one peer, the response to the
\* second arrived first
C30_Witness ==
    \E i, j \in DOMAIN ipcCalls :
        /\ i < j
        /\ ipcCalls[i].peer = ipcCalls[j].peer
        /\ ipcCalls[i].data # ipcCalls[j].data
        /\ i \in returnCallbacks
        /\ ipcCalls[j].outcome = <<Response(ipcCalls[j].data)>>

\* the frames the last step sent
NewFrames == SubSeq(signalled', Len(signalled) + 1, Len(signalled'))

\* C31: signal(methodID, data) sends the data to exactly the peers that subscribed to
\* methodID before: one frame with that id and data to each of them, none to a connected
\* peer that did not subscribe to that id
C31_SignalOnlyToSubscribers ==
    [][lastSignal' # lastSignal =>
         LET sig == lastSignal'[Len(lastSignal')]
             subscribers == {p \in peers : sig.method \in subscribed[p]} IN
         /\ Len(signalled') = Len(signalled) + Cardinality(subscribers)
         /\ {NewFrames[k].peer : k \in 1..Len(NewFrames)} = subscribers
         /\ \A k \in 1..Len(NewFrames) :
               NewFrames[k].method = sig.method /\ NewFrames[k].data = sig.data]_vars

\* two peers are connected, one subscribed to m1 and the other to m2 only; a signal m1
\* was sent and reached the first alone
C31_Witness ==
    /\ peers = PeerFDs
    /\ subscribed["p1"] = {"m1"}
    /\ subscribed["p2"] = {"m2"}
    /\ Len(lastSignal) = 1
    /\ lastSignal[1].method = "m1"
    /\ Len(signalled) = 1
    /\ signalled[1].peer = "p1"

\* C32: isRunning() of a container is true iff its state is RUNNING or LOCKED, and false
\* in STOPPED, STARTING, STOPPING, FROZEN and ABORTING: GetActiveContainerId answers with
\* the foreground container's id in the first two states and with "" in the other
\* five, and a notification of another container is passed on to it in the first two
\* states only
C32_IsRunningIffRunningOrLocked ==
    /\ (req.op = "GetActiveContainerId" /\ pc = Idle) =>
          /\ state[foregroundId] \in {"RUNNING", "LOCKED"} =>
                reply = <<ValueReply(<<foregroundId>>)>>
          /\ state[foregroundId] \in {"STOPPED", "STARTING", "STOPPING", "FROZEN", "ABORTING"} =>
                reply = <<ValueReply(<<"">>)>>
    /\ (req.op = "NotifyActiveContainer" /\ req.a # foregroundId) =>
          /\ state[foregroundId] \in {"RUNNING", "LOCKED"} =>
                (Len(calls) = 1 /\ calls[1].zone = foregroundId)
          /\ state[foregroundId] \in {"STOPPED", "STARTING", "STOPPING", "FROZEN", "ABORTING"} =>
                calls = <<>>

\* the foreground container was locked and GetActiveContainerId still answered its id
C32_Witness ==
    /\ req.op = "GetActiveContainerId"
    /\ state[foregroundId] = "LOCKED"
    /\ reply = <<ValueReply(<<foregroundId>>)>>
    /\ \E z \in ZoneIds : state[z] = "FROZEN"

\* the foreground container is frozen: no notification is passed on to it
C32_WitnessFrozen ==
    /\ req.op = "NotifyActiveContainer"
    /\ req.a # foregroundId
    /\ state[foregroundId] = "FROZEN"
    /\ calls = <<>>

\* C33: the subscription ids vsm_add_state_callback returns are pairwise distinct over
\* the life of the process, also when the subscription that held an id was deleted
\* before the next one was added
C33_SubscriptionIdsNeverReused ==
    \A i, j \in 1..Len(issuedIds) : i # j => issuedIds[i].id # issuedIds[j].id

\* a subscription was added and deleted, and another one added after it
C33_Witness ==
    /\ Len(issuedIds) = 2
    /\ issuedIds[1].id \notin HeldIds
    /\ issuedIds[2].id \in HeldIds
    /\ issuedIds[1].client # issuedIds[2].client

\* C34: in startAll, goForeground is sent to the configured foreground container only
\* after every container of the map has been started: no start() follows a
\* goForeground()
C34_ForegroundAfterAllStarted ==
    req.op = "startAll" =>
        \A i, j \in 1..Len(calls) :
            i < j => ~(calls[i].op = "goForeground" /\ calls[j].op = "start")

\* a focus or startAll has returned or thrown
FocusOrStartAllOver ==
    /\ pc = Idle
    /\ req.op \in {"startAll", "SetActiveContainer", "DisplayOff"}

\* after a focus or startAll, a container that is foreground is the one mConfig.foregroundId
\* names
C39_ForegroundIsRecorded ==
    FocusOrStartAllOver =>
        \A z \in DOMAIN foreground : foreground[z] => foregroundId = z

\* a step whose last call is a goForeground() that threw
ForegroundFailedStep ==
    /\ calls' # calls
    /\ calls' # <<>>
    /\ calls'[Len(calls')].op = "goForeground"
    /\ ~calls'[Len(calls')].ok

\* C39: after any completed or failed focus or startAll, a container that is foreground
\* is the one mConfig.foregroundId names, and mConfig.foregroundId never comes to name a
\* container whose goForeground() failed: a failing goForeground() leaves the recorded
\* id as it was
C39_ForegroundIdConsistent ==
    /\ []C39_ForegroundIsRecorded
    /\ [][ForegroundFailedStep => foregroundId' = foregroundId]_vars

\* the last NotifyActiveContainer call made on a container's bus
LastMethodCall == methodCalls[Len(methodCalls)]

\* a step that serves a NotifyActiveContainer call
NotifyCallStep == methodCalls' # methodCalls

\* the sendNotification calls of the handler that has just run
SentNotifications == {i \in 1..Len(calls) : calls[i].op = "sendNotification"}

\* C35: a NotifyActiveContainer(application, message) call on a container's bus invokes
\* the handler with exactly that application and message, and each sendNotification
\* that returns emits one Notification signal on the active container's bus whose
\* fields are the calling container, that application and that message; nothing else
\* is emitted
C35_NotificationPreserved ==
    [][NotifyCallStep =>
        LET m == methodCalls'[Len(methodCalls')]
            sent == {i \in 1..Len(calls') : calls'[i].op = "sendNotification" /\ calls'[i].ok}
        IN
        /\ req' = Req("NotifyActiveContainer", m.bus, m.parameters[1], m.parameters[2])
        /\ Cardinality(sent) <= 1
        /\ \A i \in sent :
              zoneSignals' = Append(zoneSignals,
                                    [bus |-> calls'[i].zone,
                                     parameters |-> <<m.bus, m.parameters[1],
                                                      m.parameters[2]>>])
        /\ sent = {} => zoneSignals' = zoneSignals]_vars

\* two calls with different applications were forwarded, each as one signal
C35_Witness ==
    /\ Len(methodCalls) = 2
    /\ Len(zoneSignals) = 2
    /\ methodCalls[1].parameters # methodCalls[2].parameters
    /\ zoneSignals[2].parameters = <<LastMethodCall.bus>> \o LastMethodCall.parameters

\* C36: a sendNotification that throws inside the NotifyActiveContainer handler does not
\* leave the handler and changes nothing of the manager (container map, foreground
\* flags, mConfig.foregroundId, container states); the manager is ready for the next
\* request
C36_NotificationFailureContained ==
    [][(NotifyCallStep /\ \E i \in 1..Len(calls') :
                              calls'[i].op = "sendNotification" /\ ~calls'[i].ok) =>
        /\ ~thrown'
        /\ pc' = Idle
        /\ UNCHANGED <<mContainers, foreground, foregroundId, defaultId, state,
                       zoneSignals>>]_vars

\* a sendNotification threw, and the request after it was served and sent its signal
C36_Witness ==
    /\ Len(methodCalls) = 2
    /\ \A z \in ZoneIds : state[z] = "RUNNING"
    /\ methodCalls[1].bus # foregroundId
    /\ Len(zoneSignals) = 1
    /\ SentNotifications # {}
    /\ \A i \in SentNotifications : calls[i].ok
    /\ ~thrown

\* the six result codes of FileMoveRequest
FileMoveCodes ==
    {FILE_MOVE_DESTINATION_NOT_FOUND, FILE_MOVE_WRONG_DESTINATION,
     FILE_MOVE_NO_PERMISSIONS_SEND, FILE_MOVE_NO_PERMISSIONS_RECEIVE,
     FILE_MOVE_FAILED, FILE_MOVE_SUCCEEDED}

\* C37: every FileMoveRequest that the manager handles sets its result exactly once, to
\* one of the six FILE_MOVE_* codes: the handler is bound to the ids of the map, so the
\* source lookup, the one path without a reply, does not fail
C37_FileMoveRepliesOnce ==
    req.op = "FileMoveRequest" =>
        /\ req.a \in mContainers
        /\ Len(reply) = 1
        /\ \E code \in FileMoveCodes : reply = FileMoveReply(code)

\* a request of a container to itself was answered
C37_Witness ==
    /\ req.op = "FileMoveRequest"
    /\ req.a = req.b
    /\ reply = FileMoveReply(FILE_MOVE_WRONG_DESTINATION)

\* a request whose notification failed was answered
C37_WitnessNotificationFailed ==
    /\ req.op = "FileMoveRequest"
    /\ reply = FileMoveReply(FILE_MOVE_SUCCEEDED)
    /\ \E i \in 1..Len(calls) : calls[i].op = "sendNotification" /\ ~calls[i].ok

\* C38: the key set of the container map is fixed after construction: no handler adds or
\* removes an entry
C38_KeySetFixed == [][mContainers' = mContainers]_vars

\* the handlers other than GetActiveContainerId leave the key set alone
C38_OtherHandlersKeepKeys ==
    [][mContainers' # mContainers => req'.op = "GetActiveContainerId"]_vars

\* C40: the policy check precedes the target lookup: a proxy call that the policy denies
\* is answered ERROR_FORBIDDEN, and forwarded nowhere, whether or not its target is a
\* container; ERROR_UNKNOWN_ID answers only calls that the policy allows
C40_PolicyBeforeLookup ==
    req.op = "ProxyCall" =>
        /\ ~IsProxyCallAllowed(req.a, req.b, req.c) =>
              /\ reply = <<ErrorReply(ERROR_FORBIDDEN, "Proxy call forbidden")>>
              /\ calls = <<>>
        /\ (\E i \in 1..Len(reply) : reply[i].kind = "error" /\ reply[i].val = ERROR_UNKNOWN_ID)
              => IsProxyCallAllowed(req.a, req.b, req.c)

\* a denied call to a target that is no container was answered ERROR_FORBIDDEN
C40_Witness ==
    /\ req.op = "ProxyCall"
    /\ ~IsProxyCallAllowed(req.a, req.b, req.c)
    /\ req.b \notin mContainers \cup {HOST_ID}
    /\ reply = <<ErrorReply(ERROR_FORBIDDEN, "Proxy call forbidden")>>

\* a denied call to an existing container was answered ERROR_FORBIDDEN
C40_WitnessExisting ==
    /\ req.op = "ProxyCall"
    /\ ~IsProxyCallAllowed(req.a, req.b, req.c)
    /\ req.b \in mContainers
    /\ reply = <<ErrorReply(ERROR_FORBIDDEN, "Proxy call forbidden")>>

\* an allowed call to a target that is no container was answered ERROR_UNKNOWN_ID
C40_WitnessUnknown ==
    /\ req.op = "ProxyCall"
    /\ IsProxyCallAllowed(req.a, req.b, req.c)
    /\ reply = <<ErrorReply(ERROR_UNKNOWN_ID, "Unknown proxy call target")>>

====
